---------------------------- MODULE Spec2Model ----------------------------
(***************************************************************************)
(* Entity merger / deduplicator of the calcvar paper corpus                *)
(* (src/build_papers_db.py).                                               *)
(*                                                                         *)
(* Representation of Python values:                                        *)
(*   - None and the empty string are both written "" (the code only tests  *)
(*     these fields for truthiness); a missing year is 0.                  *)
(*   - a title is a sequence of one-character strings, so that the regular *)
(*     expressions of normalize_title_key / canonical_paper_id can be      *)
(*     computed character by character.                                    *)
(*   - a list is a sequence. sorted(set(...)) is the sequence of the set's *)
(*     members in code-point order (SortedUniverse lists the strings of    *)
(*     the model in that order).                                           *)
(*   - aliases, a sorted duplicate-free list in the code, is the set of    *)
(*     its members; a missing aliases key is the empty set.                *)
(*   - relevance scores are the floats of the code times one (8.0 -> 8).   *)
(***************************************************************************)
EXTENDS Integers, Sequences, FiniteSets, TLC

VARIABLES
    papers,     \* argument of the running dedupe_accepted_papers call
    idx,        \* position of its for-loop in papers (1-based)
    deduped,    \* its dict, as the insertion-ordered sequence of [key, paper]
    accepted,   \* build_database's accepted list (result of the last dedupe)
    pc,         \* "dedupe" while the loop runs, "done" after it returned
    pass,       \* 1: first dedupe (line 1240), 2: after citation expansion (1334)
    call,       \* <<>> or <<[existing, incoming, merged]>>: the last merge_paper_rows call
    arg,        \* the arguments of each call of a function called on its own, oldest first
    ret,        \* the values these calls returned, oldest first
    db,         \* the papers of papers-db.json, the input of analyze.py
    corpus,     \* main's list papers (rows gain _thread and _influence, then are sorted)
    apc,        \* the position of the running analyze.py process in main
    run,        \* 1: the first run of analyze.py on db, 2: a second run, in a new process
    hash_seed,  \* the key with which the running process salts the hashes of strings
    top_papers, \* the command-line argument --top-papers
    oa_id_to_paper_id,     \* main's dict of that name
    in_corpus_citations,   \* main's Counter of that name
    citation_edges,        \* main's list of that name
    author_influence,      \* main's defaultdict of that name
    thread_stats,          \* main's dict of that name: of each entry "tc" and "tops"
    author_top_papers,     \* main's defaultdict of that name
    views       \* the files written so far by both runs: [run, name, data], oldest first

buildVars == <<papers, idx, deduped, accepted, pc, pass, call>>

callVars == <<arg, ret>>

analysisVars ==
    <<db, corpus, apc, run, hash_seed, top_papers, oa_id_to_paper_id, in_corpus_citations,
      citation_edges, author_influence, thread_stats, author_top_papers, views>>

vars == <<buildVars, callVars, analysisVars>>

\* build_database is not running
BuildIdle ==
    /\ papers = <<>>
    /\ idx = 1
    /\ deduped = <<>>
    /\ accepted = <<>>
    /\ pc = "idle"
    /\ pass = 1
    /\ call = <<>>

\* no function is called on its own
CallIdle ==
    /\ arg = <<>>
    /\ ret = <<>>

\* analyze.py is not running
AnalysisIdle ==
    /\ db = <<>>
    /\ corpus = <<>>
    /\ apc = "idle"
    /\ run = 1
    /\ hash_seed = 0
    /\ top_papers = 0
    /\ oa_id_to_paper_id = <<>>
    /\ in_corpus_citations = <<>>
    /\ citation_edges = <<>>
    /\ author_influence = <<>>
    /\ thread_stats = <<>>
    /\ author_top_papers = <<>>
    /\ views = <<>>

None == ""

Max(a, b) == IF a >= b THEN a ELSE b

RECURSIVE SeqMax(_)
SeqMax(s) == IF Len(s) = 1 THEN s[1] ELSE Max(s[1], SeqMax(Tail(s)))

Range(s) == {s[i] : i \in 1..Len(s)}

---------------------------------------------------------------------------
(* Bounds of the model *)

MaxPapers == 3

---------------------------------------------------------------------------
(* Strings of the model *)

ArxivDoiPrefix == "10.48550/arxiv."

ArxivIds == {"2001.00001", "2002.00002"}

OpenAlexBase == "https://openalex.org"

WorkIds == {"W1", "W2", "W3", "W4", "W5", "W6", "W7", "W8"}

UpperCase == ("E" :> "e") @@ ("L" :> "l") @@ ("Q" :> "q")

AlnumLower == {"e", "l", "q", "n"}

\* str.lower() on one character
lower(c) == IF c \in DOMAIN UpperCase THEN UpperCase[c] ELSE c

\* code-point order of the strings that occur in the sorted list fields
SortedUniverse ==
    << "Abe", "Zed", "author", "citation-expanded", "citation_expansion",
       "citation_expansion(cited_by=3)", "citation_expansion(cited_by=6)",
       "citations_50(+1)", "classical_calcvar", "curated_seed", "direct_methods",
       "domain_direct_methods(+0.8)", "euler lagrange", "keyword", "known-authors",
       "mentions_calcvar(+6)", "seed" >>

\* sorted(v for v in vals if v)
sorted(vals) == SelectSeq(SortedUniverse, LAMBDA v : v \in vals /\ v # None)

---------------------------------------------------------------------------
(* Identifier normalizer *)

\* re.sub(r"\\[nrt]", " ", text): a backslash followed by n, r or t becomes a space
RECURSIVE strip_escapes(_)
strip_escapes(text) ==
    IF Len(text) = 0 THEN <<>>
    ELSE IF Len(text) >= 2 /\ text[1] = "\\" /\ text[2] \in {"n", "r", "t"}
         THEN <<" ">> \o strip_escapes(SubSeq(text, 3, Len(text)))
         ELSE <<text[1]>> \o strip_escapes(Tail(text))

\* re.sub(r"[^a-z0-9]+", sep, text) followed by strip of sep: every maximal run of
\* non-alphanumeric characters becomes one sep; leading and trailing ones are dropped
RECURSIVE collapse(_, _, _, _)
collapse(text, sep, acc, pending) ==
    IF Len(text) = 0 THEN acc
    ELSE IF Head(text) \in AlnumLower
         THEN collapse(Tail(text), sep,
                       acc \o (IF pending /\ acc # "" THEN sep ELSE "") \o Head(text),
                       FALSE)
         ELSE collapse(Tail(text), sep, acc, TRUE)

lower_text(title) == [i \in 1..Len(title) |-> lower(title[i])]

normalize_title_key(title) ==
    collapse(strip_escapes(lower_text(title)), " ", "", FALSE)

\* re.search(r"/([AW]\d+)$", value): the trailing work id of a URL form, else the value
short_openalex_id(openalex_id) ==
    IF openalex_id = None THEN None
    ELSE IF \E w \in WorkIds : openalex_id = OpenAlexBase \o "/" \o w
         THEN CHOOSE w \in WorkIds : openalex_id = OpenAlexBase \o "/" \o w
         ELSE openalex_id

year_text(year) == IF year = 0 THEN "na" ELSE ToString(year)

\* canonical_paper_id with the slip of testing the preprint id before the DOI
canonical_paper_id_arxiv_first(doi, arxiv_id, openalex_id, title, year) ==
    IF arxiv_id # None THEN "arxiv:" \o arxiv_id
    ELSE IF doi # None THEN "doi:" \o doi
    ELSE IF openalex_id # None THEN "openalex:" \o short_openalex_id(openalex_id)
    ELSE "title:" \o collapse(lower_text(title), "-", "", FALSE) \o ":" \o year_text(year)

canonical_paper_id(doi, arxiv_id, openalex_id, title, year) ==
    IF doi # None THEN "doi:" \o doi
    ELSE IF arxiv_id # None THEN "arxiv:" \o arxiv_id
    ELSE IF openalex_id # None THEN "openalex:" \o short_openalex_id(openalex_id)
    ELSE "title:" \o collapse(lower_text(title), "-", "", FALSE) \o ":" \o year_text(year)

\* re.match(r"10\.48550/arxiv\.", doi): the DOI starts with the arXiv prefix
_is_arxiv_doi(doi) ==
    doi # None /\ \E a \in ArxivIds : doi = ArxivDoiPrefix \o a

---------------------------------------------------------------------------
(* Entity merger: merge_paper_rows, block by block *)

\* [d for d in (existing.get(k), incoming.get(k)) if d], for a string field
both(a, b) == SelectSeq(<<a, b>>, LAMBDA v : v # None)

\* [y for y in (existing.get("year"), incoming.get("year")) if y]
both_int(a, b) == SelectSeq(<<a, b>>, LAMBDA v : v # 0)

\* merge_base with the slip of a base swap that starts the aliases afresh: the aliases
\* of the replaced row are not carried over
merge_base_forgets_aliases(existing, incoming) ==
    IF incoming.relevance_score > existing.relevance_score
    THEN [incoming EXCEPT !.aliases =
              {a \in {existing.id} \cup incoming.aliases : a # None /\ a # incoming.id}]
    ELSE [existing EXCEPT !.aliases =
              {a \in existing.aliases \cup {incoming.id} \cup incoming.aliases :
                   a # None /\ a # existing.id}]

\* lines 933-946: choose the base row and collect the aliases
merge_base(existing, incoming) ==
    IF incoming.relevance_score > existing.relevance_score
    THEN [incoming EXCEPT !.aliases =
              {a \in existing.aliases \cup {existing.id} \cup incoming.aliases :
                   a # None /\ a # incoming.id}]
    ELSE [existing EXCEPT !.aliases =
              {a \in existing.aliases \cup {incoming.id} \cup incoming.aliases :
                   a # None /\ a # existing.id}]

\* lines 948-950: existing is the row after the base step
merge_counts(existing, incoming) ==
    [existing EXCEPT
        !.cited_by_count = Max(existing.cited_by_count, incoming.cited_by_count),
        !.ss_cited_by_count = Max(existing.ss_cited_by_count, incoming.ss_cited_by_count),
        !.relevance_score = Max(existing.relevance_score, incoming.relevance_score)]

\* lines 952-954: keep the richer referenced_works list
merge_referenced_works(existing, incoming) ==
    IF Len(incoming.referenced_works) > Len(existing.referenced_works)
    THEN [existing EXCEPT !.referenced_works = incoming.referenced_works]
    ELSE existing

\* lines 956-959: union of the list fields, sorted
merge_set_fields(existing, incoming) ==
    [existing EXCEPT
        !.authors = sorted(Range(existing.authors) \cup Range(incoming.authors)),
        !.tags = sorted(Range(existing.tags) \cup Range(incoming.tags)),
        !.relevance_reasons =
            sorted(Range(existing.relevance_reasons) \cup Range(incoming.relevance_reasons)),
        !.matched_queries =
            sorted(Range(existing.matched_queries) \cup Range(incoming.matched_queries)),
        !.source_types =
            sorted(Range(existing.source_types) \cup Range(incoming.source_types))]

\* merge_doi with the slip of taking the first DOI of the two rows, published or not
merge_doi_first_of_both(existing, both_dois) ==
    IF Len(both_dois) > 0 THEN [existing EXCEPT !.doi = both_dois[1]] ELSE existing

\* lines 961-966: prefer the published (non-arXiv) DOI
merge_doi(existing, both_dois) ==
    LET published_dois == SelectSeq(both_dois, LAMBDA d : ~_is_arxiv_doi(d))
    IN  IF Len(published_dois) > 0 THEN [existing EXCEPT !.doi = published_dois[1]]
        ELSE IF Len(both_dois) > 0 THEN [existing EXCEPT !.doi = both_dois[1]]
        ELSE existing

\* lines 968-975: fill the identifier fields the base row lacks
merge_fill(existing, both_arxiv, both_openalex, both_urls, both_venues) ==
    [existing EXCEPT
        !.arxiv_id = IF existing.arxiv_id = None /\ Len(both_arxiv) > 0
                     THEN both_arxiv[1] ELSE @,
        !.openalex_id = IF existing.openalex_id = None /\ Len(both_openalex) > 0
                        THEN both_openalex[1] ELSE @,
        !.url = IF existing.url = None /\ Len(both_urls) > 0 THEN both_urls[1] ELSE @,
        !.venue = IF existing.venue = None /\ Len(both_venues) > 0
                  THEN both_venues[1] ELSE @]

\* lines 979-980: prefer the later year
merge_year(existing, both_years) ==
    IF Len(both_years) > 0 THEN [existing EXCEPT !.year = SeqMax(both_years)]
    ELSE existing

\* recompute_id with the slip of replacing the id without keeping the old one
recompute_id_drops_old_id(existing) ==
    LET new_id == canonical_paper_id(existing.doi, existing.arxiv_id,
                                     existing.openalex_id, existing.title, existing.year)
    IN  IF new_id # existing.id
        THEN [existing EXCEPT
                 !.aliases = {a \in existing.aliases \ {new_id} : a # None},
                 !.id = new_id]
        ELSE existing

\* recompute_id with the slip of leaving out aliases.discard(new_id)
recompute_id_keeps_new_id(existing) ==
    LET new_id == canonical_paper_id(existing.doi, existing.arxiv_id,
                                     existing.openalex_id, existing.title, existing.year)
    IN  IF new_id # existing.id
        THEN [existing EXCEPT
                 !.aliases = {a \in existing.aliases \cup {existing.id} : a # None},
                 !.id = new_id]
        ELSE existing

\* lines 981-990: recompute the canonical id from the merged identifier fields
recompute_id(existing) ==
    LET new_id == canonical_paper_id(existing.doi, existing.arxiv_id,
                                     existing.openalex_id, existing.title, existing.year)
    IN  IF new_id # existing.id
        THEN [existing EXCEPT
                 !.aliases = {a \in (existing.aliases \cup {existing.id}) \ {new_id} :
                                  a # None},
                 !.id = new_id]
        ELSE existing

\* merge_paper_rows with the slip of recomputing the id before the DOI, the other
\* identifier fields and the year are merged
merge_paper_rows_early_id(existing, incoming) ==
    LET both_dois == both(existing.doi, incoming.doi)
        both_years == both_int(existing.year, incoming.year)
        both_arxiv == both(existing.arxiv_id, incoming.arxiv_id)
        both_openalex == both(existing.openalex_id, incoming.openalex_id)
        both_urls == both(existing.url, incoming.url)
        both_venues == both(existing.venue, incoming.venue)
        e1 == merge_base(existing, incoming)
        e2 == merge_counts(e1, incoming)
        e3 == merge_referenced_works(e2, incoming)
        e4 == recompute_id(merge_set_fields(e3, incoming))
        e5 == merge_doi(e4, both_dois)
        e6 == merge_fill(e5, both_arxiv, both_openalex, both_urls, both_venues)
    IN  merge_year(e6, both_years)

merge_paper_rows(existing, incoming) ==
    LET both_dois == both(existing.doi, incoming.doi)
        both_years == both_int(existing.year, incoming.year)
        both_arxiv == both(existing.arxiv_id, incoming.arxiv_id)
        both_openalex == both(existing.openalex_id, incoming.openalex_id)
        both_urls == both(existing.url, incoming.url)
        both_venues == both(existing.venue, incoming.venue)
        e1 == merge_base(existing, incoming)
        e2 == merge_counts(e1, incoming)
        e3 == merge_referenced_works(e2, incoming)
        e4 == merge_set_fields(e3, incoming)
        e5 == merge_doi(e4, both_dois)
        e6 == merge_fill(e5, both_arxiv, both_openalex, both_urls, both_venues)
        e7 == merge_year(e6, both_years)
    IN  recompute_id(e7)

---------------------------------------------------------------------------
(* dedupe_accepted_papers *)

Keys(d) == {d[i].key : i \in 1..Len(d)}

Slot(d, key) == CHOOSE i \in 1..Len(d) : d[i].key = key

\* paper_key with the slip of lower-casing and collapsing the title without removing
\* its literal escape sequences
paper_key_keeps_escapes(paper) == collapse(lower_text(paper.title), " ", "", FALSE)

\* line 997: the dict key of a paper
paper_key(paper) == normalize_title_key(paper.title)

\* one iteration of the for-loop (lines 997-1002) on the dict d
dedupe_step(d, paper) ==
    LET key == paper_key(paper)
    IN  IF key \notin Keys(d)
        THEN Append(d, [key |-> key, paper |-> paper])
        ELSE [d EXCEPT ![Slot(d, key)].paper = merge_paper_rows(@, paper)]

\* list(deduped.values())
dict_values(d) == [i \in 1..Len(d) |-> d[i].paper]

RECURSIVE dedupe_fold(_, _)
dedupe_fold(d, ps) ==
    IF Len(ps) = 0 THEN d ELSE dedupe_fold(dedupe_step(d, Head(ps)), Tail(ps))

dedupe_accepted_papers(ps) == dict_values(dedupe_fold(<<>>, ps))

---------------------------------------------------------------------------
(* Raw records: what build_database hands to dedupe_accepted_papers *)

min_score == 8

CITATION_EXPANSION_MIN == 3

\* paper_from_openalex (lines 710-790): the fields the merger reads
paper_from_openalex(work) ==
    LET doi == work.doi
        arxiv_id == IF work.arxiv = None /\ _is_arxiv_doi(doi)
                    THEN CHOOSE a \in ArxivIds : doi = ArxivDoiPrefix \o a
                    ELSE work.arxiv
        url == IF work.landing_page_url # None THEN work.landing_page_url
               ELSE IF doi # None THEN "https://doi.org/" \o doi
               ELSE work.id
    IN  [id |-> canonical_paper_id(doi, arxiv_id, work.id, work.title, work.year),
         title |-> work.title,
         year |-> work.year,
         authors |-> work.authors,
         venue |-> work.venue,
         doi |-> doi,
         arxiv_id |-> arxiv_id,
         url |-> url,
         openalex_id |-> work.id,
         cited_by_count |-> work.cited_by_count,
         referenced_works |-> work.referenced_works,
         ss_cited_by_count |-> 0,
         relevance_score |-> 0,
         relevance_reasons |-> <<>>,
         tags |-> <<>>,
         matched_queries |-> <<>>,
         source_types |-> <<>>,
         aliases |-> {}]

\* lines 1177-1182: the scorer's result and the discovery labels are stored on the row
scored(paper, score, reasons, tags, source_labels, source_types) ==
    [paper EXCEPT !.relevance_score = score,
                  !.relevance_reasons = reasons,
                  !.tags = sorted(tags),
                  !.matched_queries = sorted(source_labels),
                  !.source_types = sorted(source_types)]

\* lines 1231-1235 on a row of merge_seed (lines 894-914): a curated seed row keeps
\* the id its file gives it
seeded(seed_paper) ==
    [seed_paper EXCEPT !.relevance_score = Max(min_score, 10),
                       !.relevance_reasons = <<"curated_seed">>,
                       !.matched_queries = <<>>,
                       !.source_types = <<"seed">>]

\* lines 1306-1318: a paper fetched by citation expansion, cited by cite_count corpus papers
expanded(paper, reasons, tags, cite_count) ==
    [paper EXCEPT
        !.relevance_score =
            Max(min_score, IF cite_count * 2 < 30 THEN cite_count * 2 ELSE 30),
        !.relevance_reasons =
            <<"citation_expansion(cited_by=" \o ToString(cite_count) \o ")">> \o reasons,
        !.tags = sorted(tags \cup {"citation-expanded"}),
        !.matched_queries = <<>>,
        !.source_types = <<"citation_expansion">>]

TitleHyphen == <<"E", "-", "L">>
TitleSpace == <<"e", " ", "l">>
TitleEscape == <<"e", "\\", "n", "L">>
TitleOther == <<"Q">>

Work(title, year, doi, arxiv, id, venue, cited, refs, authors) ==
    [title |-> title, year |-> year, doi |-> doi, arxiv |-> arxiv, id |-> id,
     landing_page_url |-> None, venue |-> venue, cited_by_count |-> cited,
     referenced_works |-> refs, authors |-> authors]

\* the published version of scenario A
WorkDoi ==
    Work(TitleHyphen, 2020, "10.1000/x", None, OpenAlexBase \o "/W1",
         "J. Elasticity", 5, <<"W7">>, <<"Zed", "Abe">>)
\* its preprint
WorkArxiv ==
    Work(TitleSpace, 2019, None, "2001.00001", OpenAlexBase \o "/W2",
         None, 50, <<"W7", "W8">>, <<"Abe">>)
\* a second preprint version
WorkArxiv2 ==
    Work(TitleSpace, 2019, None, "2002.00002", OpenAlexBase \o "/W3",
         None, 0, <<>>, <<"Abe", "Zed">>)
\* a catalog-only record whose title carries a literal escape sequence
WorkCatalog ==
    Work(TitleEscape, 2021, None, None, OpenAlexBase \o "/W4",
         "Proc.", 7, <<"W1">>, <<"Zed">>)
\* the preprint under its arXiv DOI
WorkArxivDoi ==
    Work(TitleSpace, 2019, ArxivDoiPrefix \o "2001.00001", None, OpenAlexBase \o "/W5",
         "arXiv", 3, <<>>, <<"Abe">>)
\* a second published DOI under the same title
WorkDoiY ==
    Work(TitleHyphen, 2021, "10.1000/y", None, OpenAlexBase \o "/W7",
         None, 9, <<"W1", "W2">>, <<"Zed">>)
\* the same DOI under an unrelated title
WorkOther ==
    Work(TitleOther, 2020, "10.1000/y", None, OpenAlexBase \o "/W7",
         None, 9, <<"W1">>, <<"Abe">>)

Works == {WorkDoi, WorkArxiv, WorkArxiv2, WorkCatalog, WorkArxivDoi, WorkDoiY, WorkOther}

\* the relevance scores a scored candidate may carry (min_score, or above it)
Scores == {min_score, min_score + 2}

ReasonsOf(work) ==
    IF work.cited_by_count >= 50
    THEN <<"mentions_calcvar(+6)", "domain_direct_methods(+0.8)", "citations_50(+1)">>
    ELSE <<"mentions_calcvar(+6)">>

TagsOf(work) ==
    IF work.cited_by_count >= 50 THEN {"classical_calcvar", "direct_methods"}
    ELSE {"classical_calcvar"}

\* the discovery labels and source types upsert_candidate collects (lines 1019-1033)
LabelsOf(work) ==
    IF work.cited_by_count >= 5 THEN {"euler lagrange"} ELSE {"Abe"}

SourceTypesOf(work) ==
    IF work.cited_by_count >= 5 THEN {"keyword"} ELSE {"author", "keyword"}

\* candidates accepted by the scoring loop (lines 1175-1204)
Candidates ==
    {scored(paper_from_openalex(w), s, ReasonsOf(w), TagsOf(w),
            LabelsOf(w), SourceTypesOf(w)) : w \in Works, s \in Scores}

\* a curated seed row (merge_seed, lines 894-914) with the id of its file (line 897)
SeedRow ==
    [id |-> "seed:el", title |-> TitleHyphen, year |-> 0, authors |-> <<"Zed", "Abe">>,
     venue |-> None, doi |-> "10.1000/y", arxiv_id |-> None, url |-> None,
     openalex_id |-> "W8", cited_by_count |-> 0, referenced_works |-> <<>>,
     ss_cited_by_count |-> 0, relevance_score |-> 0, relevance_reasons |-> <<>>,
     tags |-> <<"direct_methods">>, matched_queries |-> <<>>, source_types |-> <<>>,
     aliases |-> {}]

\* the rows build_database may hold in accepted before the first dedupe (line 1240)
RawPool == Candidates \cup {seeded(SeedRow)}

Ids(ps) == {ps[i].id : i \in 1..Len(ps)}

\* accepted before line 1240: candidates are keyed by id (upsert_candidate, lines
\* 1019-1029) and a seed row is appended only when no accepted row has its id
\* (lines 1209-1236), so the ids are pairwise distinct
RawLists ==
    UNION {{ps \in [1..n -> RawPool] : Cardinality(Ids(ps)) = n} : n \in 0..MaxPapers}

ExpansionCounts == {CITATION_EXPANSION_MIN, 2 * CITATION_EXPANSION_MIN}

---------------------------------------------------------------------------
(* build_database: the two deduplication passes *)

Init ==
    /\ papers \in RawLists
    /\ idx = 1
    /\ deduped = <<>>
    /\ accepted = <<>>
    /\ pc = "dedupe"
    /\ pass = 1
    /\ call = <<>>
    /\ CallIdle
    /\ AnalysisIdle

\* lines 996-999: the paper's key is new, the paper itself becomes the canonical row
DedupeInsert ==
    /\ pc = "dedupe"
    /\ idx <= Len(papers)
    /\ paper_key(papers[idx]) \notin Keys(deduped)
    /\ deduped' = dedupe_step(deduped, papers[idx])
    /\ idx' = idx + 1
    /\ UNCHANGED <<papers, accepted, pc, pass, call>>
    /\ UNCHANGED <<callVars, analysisVars>>

\* lines 996-997, 1000-1001: the key is known, the paper is folded into its row
DedupeMerge ==
    /\ pc = "dedupe"
    /\ idx <= Len(papers)
    /\ paper_key(papers[idx]) \in Keys(deduped)
    /\ LET key == paper_key(papers[idx])
           slot == Slot(deduped, key)
       IN  /\ deduped' = dedupe_step(deduped, papers[idx])
           /\ call' = <<[existing |-> deduped[slot].paper,
                         incoming |-> papers[idx],
                         merged |-> deduped'[slot].paper]>>
    /\ idx' = idx + 1
    /\ UNCHANGED <<papers, accepted, pc, pass>>
    /\ UNCHANGED <<callVars, analysisVars>>

\* line 1003, assigned at line 1240 or 1334
DedupeReturn ==
    /\ pc = "dedupe"
    /\ idx > Len(papers)
    /\ accepted' = dict_values(deduped)
    /\ pc' = "done"
    /\ UNCHANGED <<papers, idx, deduped, pass, call>>
    /\ UNCHANGED <<callVars, analysisVars>>

\* lines 1246-1253: the catalog ids of the accepted rows, in both forms
accepted_oa_ids(ps) ==
    UNION {{ps[i].openalex_id, short_openalex_id(ps[i].openalex_id)} :
               i \in {j \in 1..Len(ps) : ps[j].openalex_id # None}}

\* lines 1255-1334: citation expansion fetches a work that accepted rows cite and that
\* is not among their catalog ids, appends it when no accepted row has its id, and
\* accepted is deduplicated again. The citing rows are the rest of the corpus (rows
\* under other titles, which no merge of the modelled rows reads), so cite_count is
\* any count the threshold admits.
CitationExpansion ==
    /\ pc = "done"
    /\ pass = 1
    /\ \E work \in Works, cite_count \in ExpansionCounts :
          LET paper == paper_from_openalex(work)
          IN  /\ short_openalex_id(work.id) \notin accepted_oa_ids(accepted)
              /\ paper.id \notin Ids(accepted)
              /\ papers' = Append(accepted,
                                  expanded(paper, ReasonsOf(work), TagsOf(work), cite_count))
    /\ accepted' = papers'
    /\ idx' = 1
    /\ deduped' = <<>>
    /\ pc' = "dedupe"
    /\ pass' = 2
    /\ call' = <<>>
    /\ UNCHANGED <<callVars, analysisVars>>

Next == DedupeInsert \/ DedupeMerge \/ DedupeReturn \/ CitationExpansion

Spec == Init /\ [][Next]_vars

---------------------------------------------------------------------------
(* Properties of the merger *)

\* the last merge_paper_rows call: its arguments as they were before it, and its result
Called == Len(call) = 1
Existing == call[1].existing
Incoming == call[1].incoming
Merged == call[1].merged

Swapped == Incoming.relevance_score > Existing.relevance_score

\* the orders in which a list of n records can be given
Orders(n) == {f \in [1..n -> 1..n] : \A i, j \in 1..n : f[i] = f[j] => i = j}

Permuted(ps, f) == [i \in 1..Len(ps) |-> ps[f[i]]]

SameKey(a, b) == normalize_title_key(a.title) = normalize_title_key(b.title)

\* C1: idempotence. Deduplicating the result D of a deduplication concatenated with a
\* copy of itself (every record of D folded with its copy) gives D again: same ids,
\* same value of every field, same aliases.
C1_Idempotent ==
    pc = "done" => dedupe_accepted_papers(accepted \o accepted) = accepted

\* C2: order independence. Every permutation of the raw list deduplicates to the same
\* set of canonical records, equal in every field.
C2_OrderIndependent ==
    (pc = "done" /\ pass = 1) =>
        \A f \in Orders(Len(papers)) :
            Range(dedupe_accepted_papers(Permuted(papers, f))) = Range(accepted)

\* C3: associativity. For three records a, b, c of one title,
\* merge(merge(a, b), c) and merge(a, merge(b, c)) are the same record.
C3_Associative ==
    (Len(papers) = 3 /\ SameKey(papers[1], papers[2]) /\ SameKey(papers[2], papers[3])) =>
        merge_paper_rows(merge_paper_rows(papers[1], papers[2]), papers[3])
            = merge_paper_rows(papers[1], merge_paper_rows(papers[2], papers[3]))

\* C4: after a merge, cited_by_count, ss_cited_by_count and relevance_score are each
\* the maximum of the field over the two records as they were before the call.
C4_MaxOfBoth ==
    Called =>
        /\ Merged.cited_by_count = Max(Existing.cited_by_count, Incoming.cited_by_count)
        /\ Merged.ss_cited_by_count
               = Max(Existing.ss_cited_by_count, Incoming.ss_cited_by_count)
        /\ Merged.relevance_score = Max(Existing.relevance_score, Incoming.relevance_score)

\* C5: after a merge, each list field (authors, tags, relevance_reasons,
\* matched_queries, source_types) holds exactly the union of the field over the two
\* records as they were before the call.
C5_UnionOfBoth ==
    Called =>
        /\ Range(Merged.authors) = Range(Existing.authors) \cup Range(Incoming.authors)
        /\ Range(Merged.tags) = Range(Existing.tags) \cup Range(Incoming.tags)
        /\ Range(Merged.relevance_reasons)
               = Range(Existing.relevance_reasons) \cup Range(Incoming.relevance_reasons)
        /\ Range(Merged.matched_queries)
               = Range(Existing.matched_queries) \cup Range(Incoming.matched_queries)
        /\ Range(Merged.source_types)
               = Range(Existing.source_types) \cup Range(Incoming.source_types)

\* C6: the id of a canonical record is never one of its own aliases, after every
\* merge of a fold and in every row of the dict.
C6_IdNotInAliases ==
    /\ Called => Merged.id \notin Merged.aliases
    /\ \A i \in 1..Len(deduped) : deduped[i].paper.id \notin deduped[i].paper.aliases

\* a merge that replaced the base row, recomputed the id to an identifier the base
\* step had put into aliases, and left other aliases behind
C6_Witness ==
    /\ Called
    /\ Swapped
    /\ Merged.id # Incoming.id
    /\ Merged.id \in merge_base(Existing, Incoming).aliases
    /\ Merged.aliases # {}

\* C7 as stated: the aliases after a merge are a superset of the aliases the canonical
\* record had before it.
C7_AliasesMonotone ==
    Called => Existing.aliases \subseteq Merged.aliases

\* C7 as amended: an alias the canonical record had before a merge is still an alias
\* after it, unless it has become the id of the merged record.
C7_AliasesKeptOrPromoted ==
    Called => Existing.aliases \subseteq Merged.aliases \cup {Merged.id}

\* a merge into a record that already had aliases, which replaced the base row and
\* changed the id
C7_Witness ==
    /\ Called
    /\ Existing.aliases # {}
    /\ Swapped
    /\ Merged.id # Existing.id

\* the two raw records of scenario A, for any relevance scores
ScenarioA(published, preprint) ==
    /\ published.id = "doi:10.1000/x" /\ published.doi = "10.1000/x"
    /\ published.year = 2020 /\ published.cited_by_count = 5
    /\ preprint.id = "arxiv:2001.00001" /\ preprint.arxiv_id = "2001.00001"
    /\ preprint.year = 2019 /\ preprint.cited_by_count = 50
    /\ published.aliases = {} /\ preprint.aliases = {}
    /\ SameKey(published, preprint)

\* C8: scenario A. The published record and its preprint, in either order and for any
\* relevance scores, merge into one record with year 2020, cited_by_count 50 and both
\* original ids in aliases.
C8_ScenarioA ==
    (/\ pc = "done" /\ pass = 1 /\ Len(papers) = 2
     /\ \/ ScenarioA(papers[1], papers[2])
        \/ ScenarioA(papers[2], papers[1])) =>
        /\ Len(accepted) = 1
        /\ accepted[1].year = 2020
        /\ accepted[1].cited_by_count = 50
        /\ {"doi:10.1000/x", "arxiv:2001.00001"} \subseteq accepted[1].aliases

\* the normalized-title keys of a list of records
TitleKeys(ps) == {normalize_title_key(ps[i].title) : i \in 1..Len(ps)}

\* C9: after a deduplication there is exactly one canonical record per normalized-title
\* key of the input, in the first pass and in the pass after citation expansion.
C9_OnePerKey ==
    pc = "done" =>
        /\ Len(accepted) = Cardinality(TitleKeys(papers))
        /\ \A k \in TitleKeys(papers) :
               Cardinality({i \in 1..Len(accepted) :
                                normalize_title_key(accepted[i].title) = k}) = 1

\* the second pass folded the appended paper into a canonical record of the first
\* pass, next to a record of another title, the group holding titles that differ
\* as written
C9_Witness ==
    /\ pc = "done"
    /\ pass = 2
    /\ Len(accepted) = 2
    /\ Len(papers) = 3
    /\ Called
    /\ Existing.title # Incoming.title

\* C10: when the input ids are pairwise distinct, so are the ids of the canonical
\* records.
C10_UniqueIds ==
    (pc = "done" /\ Cardinality(Ids(papers)) = Len(papers)) =>
        Cardinality(Ids(accepted)) = Len(accepted)

\* the identifiers a record is known by
Names(paper) == ({paper.id} \cup paper.aliases) \ {None}

\* the papers of the list handed to dedupe_accepted_papers that have been folded into
\* the row of a key so far
Folded(key) == {j \in 1..(idx - 1) : paper_key(papers[j]) = key}

\* C21: no identifier is lost by merging. After a merge every identifier of the two
\* records (ids and aliases) is the id or an alias of the merged record; at every point
\* of a fold the id or aliases of a canonical record hold every identifier of every
\* record folded into it. The canonical records of a finished pass, which carry
\* aliases, are merged with each other as well.
C21_NoIdLost ==
    /\ Called => Names(Existing) \cup Names(Incoming) \subseteq Names(Merged)
    /\ \A i \in 1..Len(deduped) :
           \A j \in Folded(deduped[i].key) : Names(papers[j]) \subseteq Names(deduped[i].paper)
    /\ pc = "done" =>
           \A i, j \in 1..Len(accepted) :
               Names(accepted[i]) \cup Names(accepted[j])
                   \subseteq Names(merge_paper_rows(accepted[i], accepted[j]))

\* a merge into a record that had aliases, whose result has an id that neither of the
\* two records had
C21_Witness ==
    /\ Called
    /\ Existing.aliases # {}
    /\ Merged.id \notin {Existing.id, Incoming.id}

\* the record a merge takes as its base (line 933)
Base == IF Swapped THEN Incoming ELSE Existing

\* canonical_paper_id of a record's own fields
OwnId(paper) ==
    canonical_paper_id(paper.doi, paper.arxiv_id, paper.openalex_id, paper.title, paper.year)

\* C22: id recomputation. After every merge the id of the merged record is
\* canonical_paper_id of its own merged doi, arxiv_id, openalex_id, title and year;
\* when that id is not the id the base record had, the base record's id is in aliases
\* and the new id is not.
C22_IdRecomputed ==
    Called =>
        /\ Merged.id = OwnId(Merged)
        /\ Merged.id # Base.id => (Base.id \in Merged.aliases /\ Merged.id \notin Merged.aliases)

\* a merge that replaced the base row and gave it an id that it did not have and that
\* is not the id of the replaced row either
C22_Witness ==
    /\ Called
    /\ Swapped
    /\ Merged.id # Base.id
    /\ Merged.id # Existing.id
    /\ Base.id \in Merged.aliases

\* the record of a merge that is not its base
Other == IF Swapped THEN Existing ELSE Incoming

\* C23: base selection. The record with the higher relevance_score (existing on a tie)
\* is the base of a merge, and every scalar field it provides (title, venue, url,
\* openalex_id, arxiv_id, doi) has its value in the merged record, except that a
\* non-preprint DOI of the other record replaces a preprint-style DOI of the base.
C23_BaseWins ==
    Called =>
        /\ Len(Base.title) > 0 => Merged.title = Base.title
        /\ Base.venue # None => Merged.venue = Base.venue
        /\ Base.url # None => Merged.url = Base.url
        /\ Base.openalex_id # None => Merged.openalex_id = Base.openalex_id
        /\ Base.arxiv_id # None => Merged.arxiv_id = Base.arxiv_id
        /\ Base.doi # None =>
               \/ Merged.doi = Base.doi
               \/ /\ _is_arxiv_doi(Base.doi)
                  /\ Other.doi # None
                  /\ ~_is_arxiv_doi(Other.doi)
                  /\ Merged.doi = Other.doi

\* the record has a DOI that is not of the preprint form 10.48550/arxiv.*
PublishedDoi(paper) == paper.doi # None /\ ~_is_arxiv_doi(paper.doi)

\* the id of the record is derived from its published DOI
PublishedId(paper) == PublishedDoi(paper) /\ paper.id = "doi:" \o paper.doi

\* the step folds papers[idx] into the i-th row of the dict
Folds(i) == pc = "dedupe" /\ idx' = idx + 1 /\ paper_key(papers[idx]) = deduped[i].key

\* C24: published DOI preference. A merge in which one of the two records has a
\* non-preprint DOI leaves a non-preprint DOI, whichever record is the base, and the
\* id derived from it; in every step of a fold a canonical record that has a
\* non-preprint DOI keeps one, and one whose id comes from a published DOI keeps such
\* an id.
C24_PublishedDoiKept ==
    [][\A i \in 1..Len(deduped) :
           i <= Len(deduped') =>
               LET before == deduped[i].paper
                   after == deduped'[i].paper
               IN  /\ PublishedDoi(before) => PublishedDoi(after)
                   /\ PublishedId(before) => PublishedId(after)
                   /\ (Folds(i) /\ (PublishedDoi(before) \/ PublishedDoi(papers[idx])))
                          => PublishedId(after)]_vars

\* a merge in which the base is a record with a preprint-style DOI and the other
\* record has a published one
C24_Witness ==
    /\ Called
    /\ _is_arxiv_doi(Base.doi)
    /\ PublishedDoi(Other)
    /\ PublishedId(Merged)

---------------------------------------------------------------------------
(* canonical_paper_id called on its own *)

IdDois == {None, "10.1000/x", ArxivDoiPrefix \o "2001.00001"}

IdArxivIds == {None} \cup ArxivIds

IdOpenAlexIds == {None, "W1", OpenAlexBase \o "/W2"}

IdTitles == {<<>>, TitleHyphen, TitleSpace, TitleEscape, TitleOther}

IdYears == {0, 2019, 2020}

IdArgs ==
    [doi : IdDois, arxiv_id : IdArxivIds, openalex_id : IdOpenAlexIds,
     title : IdTitles, year : IdYears]

IdInit ==
    /\ arg \in {<<a>> : a \in IdArgs}
    /\ ret = <<>>
    /\ BuildIdle
    /\ AnalysisIdle

\* lines 699-707, on the latest arguments
IdCall ==
    /\ Len(ret) < Len(arg)
    /\ LET a == arg[Len(arg)]
       IN  ret' = Append(ret, canonical_paper_id(a.doi, a.arxiv_id, a.openalex_id,
                                                 a.title, a.year))
    /\ UNCHANGED <<arg, buildVars, analysisVars>>

\* the caller drops the DOI of the record and asks for the id again
IdRemoveDoi ==
    /\ Len(ret) = 1
    /\ Len(arg) = 1
    /\ arg[1].doi # None
    /\ arg' = Append(arg, [arg[1] EXCEPT !.doi = None])
    /\ UNCHANGED <<ret, buildVars, analysisVars>>

IdNext == IdCall \/ IdRemoveDoi

IdSpec == IdInit /\ [][IdNext]_vars

\* the title part of the fallback id, title by title
IdSlug(title) ==
    CASE title = <<>> -> ""
      [] title = TitleHyphen -> "e-l"
      [] title = TitleSpace -> "e-l"
      [] title = TitleEscape -> "e-nl"
      [] title = TitleOther -> "q"

\* C11: identity precedence. canonical_paper_id returns 'doi:'+doi whenever the doi is
\* non-empty; with no doi, 'arxiv:'+arxiv_id whenever the arxiv_id is non-empty; with
\* neither, 'openalex:'+the short catalog id; and only with none of the three the
\* title+year fallback id. Removing the DOI from a record that has a DOI and a preprint
\* id changes the result from the DOI-derived to the preprint-derived id.
C11_Precedence ==
    /\ \A i \in 1..Len(ret) :
          LET a == arg[i]
              r == ret[i]
          IN  /\ a.doi # None => r = "doi:" \o a.doi
              /\ (a.doi = None /\ a.arxiv_id # None) => r = "arxiv:" \o a.arxiv_id
              /\ (a.doi = None /\ a.arxiv_id = None /\ a.openalex_id # None) =>
                     \E w \in WorkIds :
                        /\ a.openalex_id \in {w, OpenAlexBase \o "/" \o w}
                        /\ r = "openalex:" \o w
              /\ (a.doi = None /\ a.arxiv_id = None /\ a.openalex_id = None) <=>
                     r = "title:" \o IdSlug(a.title) \o ":"
                             \o (IF a.year = 0 THEN "na" ELSE ToString(a.year))
    /\ (Len(ret) = 2 /\ arg[1].arxiv_id # None) =>
          /\ ret[1] = "doi:" \o arg[1].doi
          /\ ret[2] = "arxiv:" \o arg[1].arxiv_id

\* the id of a record with a DOI, a preprint id and a catalog id was asked for, then
\* asked for again with the DOI removed
C11_Witness ==
    /\ Len(ret) = 2
    /\ arg[1].doi = "10.1000/x"
    /\ arg[1].arxiv_id = "2001.00001"
    /\ arg[1].openalex_id # None
    /\ ret[2] = "arxiv:2001.00001"

---------------------------------------------------------------------------
(* Thread assignment (src/analyze.py) *)

\* list(THREAD_META.keys()), lines 28-65
THREAD_ORDER ==
    << "classical_calcvar", "direct_methods", "regularity", "geometric",
       "optimal_control", "convexity", "gamma_convergence", "optimal_transport",
       "free_discontinuity" >>

\* THREAD_PRIORITY[t] for a key t of THREAD_META: its index in THREAD_ORDER, from 0
THREAD_PRIORITY(t) == (CHOOSE i \in 1..Len(THREAD_ORDER) : THREAD_ORDER[i] = t) - 1

\* min(specific, key=lambda t: THREAD_PRIORITY[t])
min_priority(specific) ==
    CHOOSE t \in Range(specific) :
        \A u \in Range(specific) : THREAD_PRIORITY(t) <= THREAD_PRIORITY(u)

\* assign_thread with the slip of returning the first tag when none is recognized
assign_thread_first_tag(paper) ==
    LET tags == paper.tags
        thread_tags == SelectSeq(tags, LAMBDA t : t \in Range(THREAD_ORDER))
        specific == SelectSeq(thread_tags, LAMBDA t : t # "classical_calcvar")
    IN  IF Len(tags) = 0 THEN "classical_calcvar"
        ELSE IF Len(thread_tags) = 0 THEN tags[1]
        ELSE IF Len(specific) > 0 THEN min_priority(specific)
        ELSE "classical_calcvar"

\* assign_thread with the slip of returning the first specific tag of the list
assign_thread_first_specific(paper) ==
    LET tags == paper.tags
        thread_tags == SelectSeq(tags, LAMBDA t : t \in Range(THREAD_ORDER))
        specific == SelectSeq(thread_tags, LAMBDA t : t # "classical_calcvar")
    IN  IF Len(tags) = 0 THEN "classical_calcvar"
        ELSE IF Len(thread_tags) = 0 THEN "classical_calcvar"
        ELSE IF Len(specific) > 0 THEN specific[1]
        ELSE "classical_calcvar"

\* lines 84-104; a missing tags key and an empty list are both <<>>
assign_thread(paper) ==
    LET tags == paper.tags
        thread_tags == SelectSeq(tags, LAMBDA t : t \in Range(THREAD_ORDER))
        specific == SelectSeq(thread_tags, LAMBDA t : t # "classical_calcvar")
    IN  IF Len(tags) = 0 THEN "classical_calcvar"
        ELSE IF Len(thread_tags) = 0 THEN "classical_calcvar"
        ELSE IF Len(specific) > 0 THEN min_priority(specific)
        ELSE "classical_calcvar"

MaxTags == 3

\* domain tags, and tags the builder adds that name no domain (lines 859, 1314)
ThreadTags ==
    {"classical_calcvar", "direct_methods", "regularity", "free_discontinuity",
     "known-authors", "citation-expanded"}

TagLists == UNION {[1..n -> ThreadTags] : n \in 0..MaxTags}

ThreadInit ==
    /\ arg \in {<<[tags |-> ts]>> : ts \in TagLists}
    /\ ret = <<>>
    /\ BuildIdle
    /\ AnalysisIdle

ThreadCall ==
    /\ ret = <<>>
    /\ ret' = <<assign_thread(arg[1])>>
    /\ UNCHANGED <<arg, buildVars, analysisVars>>

ThreadNext == ThreadCall

ThreadSpec == ThreadInit /\ [][ThreadNext]_vars

Returned == Len(ret) = 1

\* C15: thread assignment is total. Whatever the tags of a paper (missing or empty,
\* or only tags that name no domain), assign_thread returns one of the nine keys of
\* THREAD_META, and it returns the default 'classical_calcvar' when no tag is a key.
C15_ThreadTotal ==
    Returned =>
        /\ ret[1] \in Range(THREAD_ORDER)
        /\ Cardinality(Range(THREAD_ORDER)) = 9
        /\ Range(arg[1].tags) \cap Range(THREAD_ORDER) = {} => ret[1] = "classical_calcvar"

\* a paper whose tags are all outside the domain enumeration got the default thread
C15_Witness ==
    /\ Returned
    /\ arg[1].tags = <<"known-authors", "citation-expanded">>
    /\ ret[1] = "classical_calcvar"

\* the recognized tags of a paper other than the fallback
Specific(tags) == (Range(tags) \cap Range(THREAD_ORDER)) \ {"classical_calcvar"}

\* the place of a thread in the configured order
Place(t) == CHOOSE i \in 1..9 : THREAD_ORDER[i] = t

\* C16: thread priority. assign_thread returns the fallback 'classical_calcvar' only
\* when the paper has no recognized domain tag other than the fallback; otherwise it
\* returns the recognized non-fallback tag of lowest priority index, whatever the order
\* of the tags. A paper tagged direct_methods and classical_calcvar gets direct_methods.
C16_ThreadPriority ==
    Returned =>
        LET tags == arg[1].tags
        IN  /\ ret[1] = "classical_calcvar" <=> Specific(tags) = {}
            /\ Specific(tags) # {} =>
                   /\ ret[1] \in Specific(tags)
                   /\ \A u \in Specific(tags) : Place(ret[1]) <= Place(u)
            /\ \A f \in Orders(Len(tags)) :
                   assign_thread([tags |-> Permuted(tags, f)]) = ret[1]
            /\ Range(tags) = {"direct_methods", "classical_calcvar"} =>
                   ret[1] = "direct_methods"

\* a paper listing a later domain before an earlier one, and the fallback first
C16_Witness ==
    /\ Returned
    /\ arg[1].tags = <<"classical_calcvar", "regularity", "direct_methods">>
    /\ ret[1] = "direct_methods"

---------------------------------------------------------------------------
(* analyze.py: lookup table, in-corpus citations, influence, citation graph *)

\* dict.get(key, default) and dict[key] = value, a dict being the function of its keys
get(dict, key, default) == IF key \in DOMAIN dict THEN dict[key] ELSE default

put(dict, key, value) == (key :> value) @@ dict

\* Counter[key] += 1
inc(counter, key) == put(counter, key, get(counter, key, 0) + 1)

Min(a, b) == IF a <= b THEN a ELSE b

\* short_openalex_id(alias.replace("openalex:", "")) for an alias that starts with
\* "openalex:", None for any other alias (lines 244-248)
alias_oa_short(alias) ==
    IF \E w \in WorkIds : alias = "openalex:" \o w
    THEN CHOOSE w \in WorkIds : alias = "openalex:" \o w
    ELSE None

\* lines 236-248: the entries one paper adds to oa_id_to_paper_id
lookup_paper(table, p) ==
    LET oa == p.openalex_id
        t1 == IF oa # None THEN put(put(table, short_openalex_id(oa), p.id), oa, p.id)
              ELSE table
        alias_keys == {alias_oa_short(a) : a \in p.aliases} \ {None}
    IN  [k \in DOMAIN t1 \cup alias_keys |-> IF k \in alias_keys THEN p.id ELSE t1[k]]

\* lines 235-248
RECURSIVE build_lookup(_, _)
build_lookup(table, ps) ==
    IF Len(ps) = 0 THEN table ELSE build_lookup(lookup_paper(table, Head(ps)), Tail(ps))

\* lines 260-261: the test a reference has to pass
resolves(ref_oa, source_id, table, paper_ids) ==
    LET target_id == get(table, ref_oa, None)
    IN  target_id # None /\ target_id \in paper_ids /\ target_id # source_id

\* count_refs with the slip of counting a cited paper once per citing paper
count_refs_once(counter, paper_id, refs, table, paper_ids) ==
    LET hits == SelectSeq(refs, LAMBDA r : resolves(r, paper_id, table, paper_ids))
        targets == {table[hits[i]] : i \in 1..Len(hits)}
    IN  [t \in DOMAIN counter \cup targets |->
            get(counter, t, 0) + (IF t \in targets THEN 1 ELSE 0)]

\* lines 259-263: the references of one paper; every occurrence that passes the test
\* adds one to the count of its target
count_refs(counter, paper_id, refs, table, paper_ids) ==
    LET hits == SelectSeq(refs, LAMBDA r : resolves(r, paper_id, table, paper_ids))
        targets == {table[hits[i]] : i \in 1..Len(hits)}
    IN  [t \in DOMAIN counter \cup targets |->
            get(counter, t, 0) + Cardinality({i \in 1..Len(hits) : table[hits[i]] = t})]

\* lines 255-263
RECURSIVE count_citations(_, _, _, _)
count_citations(counter, ps, table, paper_ids) ==
    IF Len(ps) = 0 THEN counter
    ELSE count_citations(
             count_refs(counter, Head(ps).id, Head(ps).referenced_works, table, paper_ids),
             Tail(ps), table, paper_ids)

\* the terms of the influence are held in units of 1e-7
Unit == 10000000

\* floor(a * 10^digits / b) by long division, for a >= 0 and b > 0
RECURSIVE quotient(_, _, _)
quotient(a, b, digits) ==
    IF digits = 0 THEN a \div b
    ELSE (a \div b) * (10 ^ digits) + quotient((a % b) * 10, b, digits - 1)

\* a / b in units of 1e-7
ratio(a, b) == quotient(a, b, 7)

\* math.log1p(n) in units of 1e-7, for n = 0, 1, ..., 64
Log1pTable ==
    << 0, 6931472, 10986123, 13862944, 16094379, 17917595,
       19459101, 20794415, 21972246, 23025851, 23978953, 24849066,
       25649494, 26390573, 27080502, 27725887, 28332133, 28903718,
       29444390, 29957323, 30445224, 30910425, 31354942, 31780538,
       32188758, 32580965, 32958369, 33322045, 33672958, 34011974,
       34339872, 34657359, 34965076, 35263605, 35553481, 35835189,
       36109179, 36375862, 36635616, 36888795, 37135721, 37376696,
       37612001, 37841896, 38066625, 38286414, 38501476, 38712010,
       38918203, 39120230, 39318256, 39512437, 39702919, 39889840,
       40073332, 40253517, 40430513, 40604430, 40775374, 40943446,
       41108739, 41271344, 41431347, 41588831, 41743873 >>

log1p(n) == Log1pTable[n + 1]

\* max(0, min(1.0, (year - (current_year - 30)) / 30)) in units of 1e-7
recency_of(year) ==
    LET since == year - (2025 - 30)
    IN  IF since <= 0 THEN 0 ELSE IF since >= 30 THEN Unit ELSE ratio(since, 30)

\* round(inf, 4) of a weighted sum given in units of 1e-8: the result is in
\* ten-thousandths
round4(sum) == (sum + 5000) \div 10000

\* compute_influence with the slip of leaving out the cap of the in-corpus term
compute_influence_uncapped(paper, icc, max_citations, max_relevance) ==
    LET cited == paper.cited_by_count
        relevance == paper.relevance_score
        in_corpus == get(icc, paper.id, 0)
        year == IF paper.year = 0 THEN 1950 ELSE paper.year
        cite_norm == ratio(log1p(cited), log1p(Max(max_citations, 1)))
        rel_norm == ratio(relevance, Max(max_relevance, 1))
        in_corpus_norm == ratio(log1p(in_corpus), log1p(50))
        recency == recency_of(year)
    IN  round4(4 * cite_norm + 3 * rel_norm + 2 * in_corpus_norm + recency)

\* lines 107-136. The result is in ten-thousandths, the precision of round(inf, 4).
compute_influence(paper, icc, max_citations, max_relevance) ==
    LET cited == paper.cited_by_count
        relevance == paper.relevance_score
        in_corpus == get(icc, paper.id, 0)
        year == IF paper.year = 0 THEN 1950 ELSE paper.year
        cite_norm == ratio(log1p(cited), log1p(Max(max_citations, 1)))
        rel_norm == ratio(relevance, Max(max_relevance, 1))
        in_corpus_norm == Min(ratio(log1p(in_corpus), log1p(50)), Unit)
        recency == recency_of(year)
    IN  round4(4 * cite_norm + 3 * rel_norm + 2 * in_corpus_norm + recency)

\* row with one more key
with(row, key, value) == (key :> value) @@ row

\* list.sort(key=lambda p: -p["_influence"]): stable, so a row goes behind the rows
\* already placed whose influence is not lower
RECURSIVE place(_, _)
place(sorted_rows, row) ==
    IF Len(sorted_rows) = 0 THEN <<row>>
    ELSE IF Head(sorted_rows)["_influence"] >= row["_influence"]
         THEN <<Head(sorted_rows)>> \o place(Tail(sorted_rows), row)
         ELSE <<row>> \o sorted_rows

\* sort_by_influence with the slip of an unstable sort: a row goes in front of the
\* rows already placed whose influence is the same
RECURSIVE sort_by_influence_unstable(_, _)
sort_by_influence_unstable(sorted_rows, ps) ==
    LET ahead == SelectSeq(sorted_rows,
                           LAMBDA r : r["_influence"] > Head(ps)["_influence"])
        behind == SelectSeq(sorted_rows,
                            LAMBDA r : r["_influence"] <= Head(ps)["_influence"])
    IN  IF Len(ps) = 0 THEN sorted_rows
        ELSE sort_by_influence_unstable(ahead \o <<Head(ps)>> \o behind, Tail(ps))

RECURSIVE sort_by_influence(_, _)
sort_by_influence(sorted_rows, ps) ==
    IF Len(ps) = 0 THEN sorted_rows
    ELSE sort_by_influence(place(sorted_rows, Head(ps)), Tail(ps))

\* edges_of with the slip of leaving out the test target_id != source_id
edges_of_keeps_self(source_id, refs, table, paper_ids) ==
    LET kept == SelectSeq(refs, LAMBDA r : /\ get(table, r, None) # None
                                           /\ get(table, r, None) \in paper_ids)
    IN  [i \in 1..Len(kept) |-> [source |-> source_id, target |-> table[kept[i]]]]

\* lines 146-150: the edges of one paper, one for every reference that resolves to
\* another paper of the corpus
edges_of(source_id, refs, table, paper_ids) ==
    LET kept == SelectSeq(refs, LAMBDA r : /\ get(table, r, None) # None
                                           /\ get(table, r, None) \in paper_ids
                                           /\ get(table, r, None) # source_id)
    IN  [i \in 1..Len(kept) |-> [source |-> source_id, target |-> table[kept[i]]]]

RECURSIVE graph_edges_of(_, _, _)
graph_edges_of(ps, table, paper_ids) ==
    IF Len(ps) = 0 THEN <<>>
    ELSE edges_of(Head(ps).id, Head(ps).referenced_works, table, paper_ids)
         \o graph_edges_of(Tail(ps), table, paper_ids)

\* lines 139-151
build_citation_graph(ps, table) == graph_edges_of(ps, table, Ids(ps))

---------------------------------------------------------------------------
(* analyze.py: the rows of papers-db.json *)

MaxCorpus == 4

\* a scored candidate, as the scoring loop of build_database leaves it
RowOf(work, score, tags) ==
    scored(paper_from_openalex(work), score, ReasonsOf(work), tags,
           LabelsOf(work), SourceTypesOf(work))

\* A: a published paper that cites B and C
PaperA ==
    RowOf(Work(TitleHyphen, 2020, "10.1000/x", None, OpenAlexBase \o "/W1",
               "J. Elasticity", 5, <<"W2", "W3">>, <<"Zed", "Abe">>),
          8, {"classical_calcvar"})

\* B: a recent, much cited preprint into which a catalog-only duplicate (W8) was merged
PaperB ==
    merge_paper_rows(
        RowOf(Work(TitleOther, 2026, None, "2001.00001", OpenAlexBase \o "/W2",
                   None, 60, <<>>, <<"Abe">>),
              10, {"classical_calcvar", "direct_methods"}),
        RowOf(Work(TitleOther, 2026, None, None, OpenAlexBase \o "/W8",
                   None, 3, <<>>, <<"Abe">>),
              8, {"classical_calcvar"}))

\* C: a curated seed row without year, authors and reference list
PaperC ==
    seeded([SeedRow EXCEPT !.id = "seed:c", !.title = <<"n">>, !.authors = <<>>,
                           !.doi = None, !.openalex_id = "W3", !.tags = <<>>])

\* D: an older paper that cites B
PaperD ==
    RowOf(Work(<<"l">>, 1990, "10.1000/y", None, OpenAlexBase \o "/W4",
               None, 7, <<"W2">>, <<"Zed">>),
          9, {"direct_methods", "known-authors"})

\* E: cites B under both of its catalog ids, itself, and a work outside the corpus
PaperE ==
    RowOf(Work(<<"e">>, 2010, None, "2002.00002", OpenAlexBase \o "/W5",
               None, 9, <<"W2", "W8", "W5", "W9">>, <<"Abe", "Zed">>),
          8, {"classical_calcvar"})

\* F: found by citation expansion; its reference list names B 51 times
PaperF ==
    expanded(paper_from_openalex(
                 Work(<<"q", "n">>, 2024, None, None, OpenAlexBase \o "/W7",
                      None, 1, [i \in 1..51 |-> "W2"], <<"Zed">>)),
             <<"mentions_calcvar(+6)">>, {"classical_calcvar"}, CITATION_EXPANSION_MIN)

\* G: as old, as much cited and as relevant as D, and cited by no paper either; the
\* catalog lists one of its authors twice
PaperG ==
    RowOf(Work(<<"n", "l">>, 1985, "10.1000/z", None, OpenAlexBase \o "/W6",
               None, 7, <<>>, <<"Zed", "Abe", "Zed">>),
          9, {"direct_methods", "known-authors"})

DbPool == {PaperA, PaperB, PaperC, PaperD, PaperE, PaperF, PaperG}

\* the papers lists of papers-db.json: rows of pairwise distinct titles and ids
DbLists ==
    UNION {{ps \in [1..n -> DbPool] : \A i, j \in 1..n : ps[i] = ps[j] => i = j} :
               n \in 0..MaxCorpus}

\* --top-papers: a small value, and the default (line 216)
TopChoices == {2, 800}

\* the keys with which a process may salt the hashes of strings
HashKeys == {7, 11}

---------------------------------------------------------------------------
(* analyze.py: the output views *)

\* the cap of the graph view: 600 in the code (lines 454 and 457), here scaled to the
\* size of the modelled corpora
GraphCap == 3

\* seq[:n] for n >= 0
Prefix(seq, n) == SubSeq(seq, 1, Min(n, Len(seq)))

\* the id strings a process hashes
HashedStrings ==
    << "doi:10.1000/x", "arxiv:2001.00001", "seed:c", "doi:10.1000/y",
       "arxiv:2002.00002", "openalex:W7", "doi:10.1000/z" >>

\* hash(s) of a str in a process whose key is key: CPython derives it from the key
\* the process draws at start-up; these values stand for that function
str_hash(key, s) == key * (CHOOSE i \in 1..Len(HashedStrings) : HashedStrings[i] = s)

\* a / b rounded to the nearest integer, for a >= 0 and b > 0
rounded_div(a, b) == (2 * a + b) \div (2 * b)

\* p.get("year") or 2000
layout_year(p) == IF p.year = 0 THEN 2000 ELSE p.year

\* lines 202-207: the entry of one paper; x is in tenths
position_of(p, year_min, year_range, key) ==
    LET year == layout_year(p)
        thread == IF "_thread" \in DOMAIN p THEN p["_thread"] ELSE "classical_calcvar"
        thread_y == IF thread \in Range(THREAD_ORDER) THEN THREAD_PRIORITY(thread) * 100 ELSE 0
        x == rounded_div((year - year_min) * 8000, year_range) - 4000
        y == thread_y + ((str_hash(key, p.id) % 60) - 30)
    IN  <<x, y>>

RECURSIVE positions_of(_, _, _, _, _)
positions_of(positions, ps, year_min, year_range, key) ==
    IF Len(ps) = 0 THEN positions
    ELSE positions_of(put(positions, Head(ps).id,
                          position_of(Head(ps), year_min, year_range, key)),
                      Tail(ps), year_min, year_range, key)

\* min(...) of a non-empty sequence
RECURSIVE SeqMin(_)
SeqMin(s) == IF Len(s) = 1 THEN s[1] ELSE Min(s[1], SeqMin(Tail(s)))

\* lines 194-209, for a non-empty list (min and max of an empty one raise ValueError)
compute_warm_positions(ps, key) ==
    LET years == [i \in 1..Len(ps) |-> layout_year(ps[i])]
        year_min == SeqMin(years)
        year_max == SeqMax(years)
        year_range == Max(year_max - year_min, 1)
    IN  positions_of(<<>>, ps, year_min, year_range, key)

\* the ids in the "tops" of a thread, 15 at line 313, scaled down to the corpora of
\* the model
ThreadTops == 2

\* the ids in the "tops" of an author, 10 at line 343, scaled down likewise
AuthorTops == 2

\* line 281
thread_papers(ps, tid) == SelectSeq(ps, LAMBDA p : p["_thread"] = tid)

\* lines 303 and 313: the ids of the first papers of the thread, sorted once more
thread_tops(tps) ==
    LET thread_top_papers == sort_by_influence(<<>>, tps)
    IN  [i \in 1..Min(ThreadTops, Len(tps)) |-> thread_top_papers[i].id]

\* lines 278-314: of the entry of every thread, "tc" and "tops"
thread_stats_of(ps) ==
    [tid \in Range(THREAD_ORDER) |->
        [tc |-> Len(thread_papers(ps, tid)), tops |-> thread_tops(thread_papers(ps, tid))]]

\* lines 342-344: the authors of one paper, one by one
RECURSIVE add_top_paper(_, _, _)
add_top_paper(tops, authors, id) ==
    IF Len(authors) = 0 THEN tops
    ELSE add_top_paper(
             IF Len(get(tops, Head(authors), <<>>)) < AuthorTops
             THEN put(tops, Head(authors), Append(get(tops, Head(authors), <<>>), id))
             ELSE tops,
             Tail(authors), id)

\* lines 340-344
RECURSIVE author_top_papers_of(_, _)
author_top_papers_of(tops, ps) ==
    IF Len(ps) = 0 THEN tops
    ELSE author_top_papers_of(add_top_paper(tops, Head(ps).authors, Head(ps).id), Tail(ps))

\* line 331: author_influence[author] += paper["_influence"], author by author
RECURSIVE add_influence(_, _, _)
add_influence(totals, authors, influence) ==
    IF Len(authors) = 0 THEN totals
    ELSE add_influence(put(totals, Head(authors), get(totals, Head(authors), 0) + influence),
                       Tail(authors), influence)

RECURSIVE sum_author_influence(_, _)
sum_author_influence(totals, ps) ==
    IF Len(ps) = 0 THEN totals
    ELSE sum_author_influence(add_influence(totals, Head(ps).authors, Head(ps)["_influence"]),
                              Tail(ps))

\* "{year}-01-01" if year else "2000-01-01" (line 370)
date_str(year) == IF year # 0 THEN ToString(year) \o "-01-01" ELSE "2000-01-01"

\* lines 367-382: the entry of one top paper (its "ref" list is left out)
core_paper(p, icc) ==
    [id |-> p.id, t |-> p.title, a |-> Prefix(p.authors, 10), d |-> date_str(p.year),
     inf |-> p["_influence"], th |-> p["_thread"], cc |-> p.cited_by_count,
     tags |-> p.tags, icc |-> get(icc, p.id, 0)]

RECURSIVE core_papers_of(_, _, _)
core_papers_of(entries, ps, icc) ==
    IF Len(ps) = 0 THEN entries
    ELSE core_papers_of(put(entries, Head(ps).id, core_paper(Head(ps), icc)), Tail(ps), icc)

\* the edges with both ends in node_ids, with the slip of testing the source only
edges_within_source_only(edges, node_ids) ==
    SelectSeq(edges, LAMBDA e : e.source \in node_ids)

\* [e for e in citation_edges if e["source"] in ids and e["target"] in ids]
\* (lines 386-389 and 471-475)
edges_within(edges, node_ids) ==
    SelectSeq(edges, LAMBDA e : e.source \in node_ids /\ e.target \in node_ids)

\* lines 364-417: core.json (papers and graph; nodes are the set top_ids)
core_view(ps, n, icc, edges) ==
    LET core_papers == core_papers_of(<<>>, Prefix(ps, n), icc)
        top_ids == DOMAIN core_papers
    IN  [papers |-> core_papers,
         graph |-> [nodes |-> top_ids, edges |-> edges_within(edges, top_ids)]]

\* lines 419-451: papers.json
papers_entry(p) ==
    [id |-> p.id, t |-> p.title, a |-> Prefix(p.authors, 10), y |-> p.year,
     c |-> p.cited_by_count, inf |-> p["_influence"], rel |-> p.relevance_score,
     th |-> p["_thread"], tags |-> p.tags, doi |-> p.doi, arxiv_id |-> p.arxiv_id,
     url |-> p.url, venue |-> p.venue]

RECURSIVE papers_dict_of(_, _)
papers_dict_of(entries, ps) ==
    IF Len(ps) = 0 THEN entries
    ELSE papers_dict_of(put(entries, Head(ps).id, papers_entry(Head(ps))), Tail(ps))

papers_view(ps) == [papers |-> papers_dict_of(<<>>, ps)]

\* lines 453-493: graph.json
graph_view(ps, edges, key) ==
    LET shown == Prefix(ps, GraphCap)
        warm_positions == compute_warm_positions(shown, key)
        graph_nodes ==
            [i \in 1..Len(shown) |->
                [id |-> shown[i].id, type |-> "paper", t |-> shown[i].title,
                 inf |-> shown[i]["_influence"], th |-> shown[i]["_thread"],
                 x |-> get(warm_positions, shown[i].id, <<0, 0>>)[1],
                 y |-> get(warm_positions, shown[i].id, <<0, 0>>)[2]]]
        graph_node_ids == {graph_nodes[i].id : i \in 1..Len(graph_nodes)}
        kept == edges_within(edges, graph_node_ids)
    IN  [nodes |-> graph_nodes,
         edges |-> [i \in 1..Len(kept) |->
                       [source |-> kept[i].source, target |-> kept[i].target,
                        type |-> "paper_cites"]]]

\* the place of a string in code-point order
rank(v) == CHOOSE i \in 1..Len(SortedUniverse) : SortedUniverse[i] = v

\* tuple(sorted([a1, a2]))
sorted_pair(a1, a2) == IF rank(a1) <= rank(a2) THEN <<a1, a2>> ELSE <<a2, a1>>

\* coauthor_weights[pair] += 1, the Counter being the list of its items in insertion order
add_pair(weights, pair) ==
    IF \E k \in 1..Len(weights) : weights[k].pair = pair
    THEN [k \in 1..Len(weights) |->
             IF weights[k].pair = pair
             THEN [weights[k] EXCEPT !.weight = @ + 1] ELSE weights[k]]
    ELSE Append(weights, [pair |-> pair, weight |-> 1])

\* lines 163-167: the pairs (i, j), i < j, of one author list
RECURSIVE add_pairs(_, _, _, _)
add_pairs(weights, authors, i, j) ==
    IF i > Len(authors) THEN weights
    ELSE IF j > Len(authors) THEN add_pairs(weights, authors, i + 1, i + 2)
    ELSE add_pairs(add_pair(weights, sorted_pair(authors[i], authors[j])), authors, i, j + 1)

RECURSIVE coauthor_weights_of(_, _)
coauthor_weights_of(weights, ps) ==
    IF Len(ps) = 0 THEN weights
    ELSE coauthor_weights_of(add_pairs(weights, Head(ps).authors, 1, 2), Tail(ps))

\* Counter.most_common(): by weight, highest first, equal weights in insertion order
RECURSIVE place_item(_, _)
place_item(items, item) ==
    IF Len(items) = 0 THEN <<item>>
    ELSE IF Head(items).weight >= item.weight
         THEN <<Head(items)>> \o place_item(Tail(items), item)
         ELSE <<item>> \o items

RECURSIVE most_common(_, _)
most_common(items, weights) ==
    IF Len(weights) = 0 THEN items
    ELSE most_common(place_item(items, Head(weights)), Tail(weights))

\* author.lower().replace(" ", "_") for the author names of the model
author_node_id(author) == IF author = "Abe" THEN "abe" ELSE "zed"

\* lines 154-191
build_coauthor_network(ps, influence) ==
    LET author_set == UNION {Range(ps[i].authors) : i \in 1..Len(ps)}
        with_influence == SelectSeq(sorted(author_set), LAMBDA a : get(influence, a, 0) > 0)
        nodes == [i \in 1..Len(with_influence) |->
                     [id |-> author_node_id(with_influence[i]),
                      author |-> with_influence[i],
                      inf |-> get(influence, with_influence[i], 0)]]
        node_authors == Range(with_influence)
        linked == SelectSeq(most_common(<<>>, coauthor_weights_of(<<>>, ps)),
                            LAMBDA w : /\ w.pair[1] \in node_authors
                                       /\ w.pair[2] \in node_authors
                                       /\ w.weight >= 1)
    IN  [nodes |-> nodes,
         edges |-> [i \in 1..Len(linked) |->
                       [source |-> author_node_id(linked[i].pair[1]),
                        target |-> author_node_id(linked[i].pair[2]),
                        weight |-> linked[i].weight]]]

---------------------------------------------------------------------------
(* analyze.py: main, section by section *)

AnalysisInit ==
    /\ db \in DbLists
    /\ corpus = db
    /\ apc = "loaded"
    /\ run = 1
    /\ hash_seed \in HashKeys
    /\ top_papers \in TopChoices
    /\ oa_id_to_paper_id = <<>>
    /\ in_corpus_citations = <<>>
    /\ citation_edges = <<>>
    /\ author_influence = <<>>
    /\ thread_stats = <<>>
    /\ author_top_papers = <<>>
    /\ views = <<>>
    /\ BuildIdle
    /\ CallIdle

\* lines 230-232: nothing to analyze, main returns
ReturnEmpty ==
    /\ apc = "loaded"
    /\ Len(corpus) = 0
    /\ apc' = "done"
    /\ UNCHANGED <<db, corpus, run, hash_seed, top_papers, oa_id_to_paper_id,
                   in_corpus_citations, citation_edges, author_influence,
                   thread_stats, author_top_papers, views>>
    /\ UNCHANGED <<buildVars, callVars>>

\* lines 234-248
BuildLookup ==
    /\ apc = "loaded"
    /\ Len(corpus) > 0
    /\ oa_id_to_paper_id' = build_lookup(<<>>, corpus)
    /\ apc' = "lookup"
    /\ UNCHANGED <<db, corpus, run, hash_seed, top_papers, in_corpus_citations,
                   citation_edges, author_influence,
                   thread_stats, author_top_papers, views>>
    /\ UNCHANGED <<buildVars, callVars>>

\* lines 250-252
AssignThreads ==
    /\ apc = "lookup"
    /\ corpus' = [i \in 1..Len(corpus) |->
                     with(corpus[i], "_thread", assign_thread(corpus[i]))]
    /\ apc' = "threads"
    /\ UNCHANGED <<db, run, hash_seed, top_papers, oa_id_to_paper_id, in_corpus_citations,
                   citation_edges, author_influence,
                   thread_stats, author_top_papers, views>>
    /\ UNCHANGED <<buildVars, callVars>>

\* lines 254-263
CountCitations ==
    /\ apc = "threads"
    /\ in_corpus_citations' = count_citations(<<>>, corpus, oa_id_to_paper_id, Ids(corpus))
    /\ apc' = "counted"
    /\ UNCHANGED <<db, corpus, run, hash_seed, top_papers, oa_id_to_paper_id,
                   citation_edges, author_influence,
                   thread_stats, author_top_papers, views>>
    /\ UNCHANGED <<buildVars, callVars>>

\* lines 265-272
ComputeInfluence ==
    /\ apc = "counted"
    /\ LET max_citations == SeqMax([i \in 1..Len(corpus) |-> corpus[i].cited_by_count])
           max_relevance == SeqMax([i \in 1..Len(corpus) |-> corpus[i].relevance_score])
       IN  corpus' = [i \in 1..Len(corpus) |->
                         with(corpus[i], "_influence",
                              compute_influence(corpus[i], in_corpus_citations,
                                                max_citations, max_relevance))]
    /\ apc' = "influence"
    /\ UNCHANGED <<db, run, hash_seed, top_papers, oa_id_to_paper_id, in_corpus_citations,
                   citation_edges, author_influence,
                   thread_stats, author_top_papers, views>>
    /\ UNCHANGED <<buildVars, callVars>>

\* line 275
SortPapers ==
    /\ apc = "influence"
    /\ corpus' = sort_by_influence(<<>>, corpus)
    /\ apc' = "sorted"
    /\ UNCHANGED <<db, run, hash_seed, top_papers, oa_id_to_paper_id, in_corpus_citations,
                   citation_edges, author_influence,
                   thread_stats, author_top_papers, views>>
    /\ UNCHANGED <<buildVars, callVars>>

\* lines 277-314
ThreadStats ==
    /\ apc = "sorted"
    /\ thread_stats' = thread_stats_of(corpus)
    /\ apc' = "thread_stats"
    /\ UNCHANGED <<db, corpus, run, hash_seed, top_papers, oa_id_to_paper_id,
                   in_corpus_citations, citation_edges, author_influence,
                   author_top_papers, views>>
    /\ UNCHANGED <<buildVars, callVars>>

\* lines 316-357: the author statistics, of which author_influence is read later and
\* author_top_papers is written as the "tops" of the authors
AuthorStats ==
    /\ apc = "thread_stats"
    /\ author_influence' = sum_author_influence(<<>>, corpus)
    /\ author_top_papers' = author_top_papers_of(<<>>, corpus)
    /\ apc' = "authors"
    /\ UNCHANGED <<db, corpus, run, hash_seed, top_papers, oa_id_to_paper_id,
                   in_corpus_citations, citation_edges, thread_stats, views>>
    /\ UNCHANGED <<buildVars, callVars>>

\* lines 359-362
BuildGraph ==
    /\ apc = "authors"
    /\ citation_edges' = build_citation_graph(corpus, oa_id_to_paper_id)
    /\ apc' = "graph"
    /\ UNCHANGED <<db, corpus, run, hash_seed, top_papers, oa_id_to_paper_id,
                   in_corpus_citations, author_influence,
                   thread_stats, author_top_papers, views>>
    /\ UNCHANGED <<buildVars, callVars>>

\* a file is written
write(name, data) == views' = Append(views, [run |-> run, name |-> name, data |-> data])

\* lines 364-417
WriteCore ==
    /\ apc = "graph"
    /\ write("core", core_view(corpus, top_papers, in_corpus_citations, citation_edges))
    /\ apc' = "core"
    /\ UNCHANGED <<db, corpus, run, hash_seed, top_papers, oa_id_to_paper_id,
                   in_corpus_citations, citation_edges, author_influence,
                   thread_stats, author_top_papers>>
    /\ UNCHANGED <<buildVars, callVars>>

\* lines 419-451
WritePapers ==
    /\ apc = "core"
    /\ write("papers", papers_view(corpus))
    /\ apc' = "papers"
    /\ UNCHANGED <<db, corpus, run, hash_seed, top_papers, oa_id_to_paper_id,
                   in_corpus_citations, citation_edges, author_influence,
                   thread_stats, author_top_papers>>
    /\ UNCHANGED <<buildVars, callVars>>

\* lines 453-493
WriteGraph ==
    /\ apc = "papers"
    /\ write("graph", graph_view(corpus, citation_edges, hash_seed))
    /\ apc' = "unified"
    /\ UNCHANGED <<db, corpus, run, hash_seed, top_papers, oa_id_to_paper_id,
                   in_corpus_citations, citation_edges, author_influence,
                   thread_stats, author_top_papers>>
    /\ UNCHANGED <<buildVars, callVars>>

\* lines 495-505, and the return of main
WriteCoauthor ==
    /\ apc = "unified"
    /\ write("coauthor", build_coauthor_network(corpus, author_influence))
    /\ apc' = "done"
    /\ UNCHANGED <<db, corpus, run, hash_seed, top_papers, oa_id_to_paper_id,
                   in_corpus_citations, citation_edges, author_influence,
                   thread_stats, author_top_papers>>
    /\ UNCHANGED <<buildVars, callVars>>

\* analyze.py is run once more on the same file with the same arguments: a new
\* process, with a key of its own
RunAgain ==
    /\ apc = "done"
    /\ run = 1
    /\ run' = 2
    /\ hash_seed' \in HashKeys
    /\ corpus' = db
    /\ apc' = "loaded"
    /\ oa_id_to_paper_id' = <<>>
    /\ in_corpus_citations' = <<>>
    /\ citation_edges' = <<>>
    /\ author_influence' = <<>>
    /\ thread_stats' = <<>>
    /\ author_top_papers' = <<>>
    /\ UNCHANGED <<db, top_papers, views>>
    /\ UNCHANGED <<buildVars, callVars>>

AnalysisNext ==
    \/ ReturnEmpty \/ BuildLookup \/ AssignThreads \/ CountCitations
    \/ ComputeInfluence \/ SortPapers \/ ThreadStats \/ AuthorStats \/ BuildGraph
    \/ WriteCore \/ WritePapers \/ WriteGraph \/ WriteCoauthor \/ RunAgain

AnalysisSpec == AnalysisInit /\ [][AnalysisNext]_vars

---------------------------------------------------------------------------
(* Properties of the analysis *)

\* main has built the citation graph of a non-empty corpus
GraphBuilt == apc \in {"graph", "core", "papers", "unified", "done"} /\ Len(corpus) > 0

\* the rows carry their influence
Ranked ==
    apc \in {"influence", "sorted", "thread_stats", "authors", "graph", "core", "papers", "unified", "done"}
    /\ Len(corpus) > 0

\* lookup tables other than the one main builds: one key of it resolves to no paper,
\* to a paper outside the corpus, or to another paper of the pool
OtherTables ==
    {put(oa_id_to_paper_id, k, v) :
        k \in {"W2", "W5", "W9"}, v \in {None, "doi:ghost", "arxiv:2002.00002"}}

ValidEdges(edges, ps) ==
    \A i \in 1..Len(edges) :
        /\ edges[i].source # edges[i].target
        /\ edges[i].source \in Ids(ps)
        /\ edges[i].target \in Ids(ps)

\* the occurrences in the reference list of p that the table resolves to the id t
Occurrences(p, t, table) ==
    Cardinality({i \in 1..Len(p.referenced_works) :
                    get(table, p.referenced_works[i], None) = t})

RECURSIVE SumSeq(_)
SumSeq(s) == IF Len(s) = 0 THEN 0 ELSE Head(s) + SumSeq(Tail(s))

\* the occurrences, over the papers other than t, that resolve to the corpus paper t
Citing(ps, t, table) ==
    SumSeq([i \in 1..Len(ps) |->
               IF ps[i].id = t THEN 0 ELSE Occurrences(ps[i], t, table)])

EdgesInto(edges, t) == Cardinality({i \in 1..Len(edges) : edges[i].target = t})

\* C12: graph validity. Every edge of build_citation_graph, for the lookup table of
\* main and for any other table, has source # target and both ends among the ids of
\* the corpus; a reference that resolves to no corpus paper or to the citing paper
\* itself gives no edge, so the edges are exactly one per occurrence of a reference
\* that resolves to another corpus paper.
C12_GraphValid ==
    GraphBuilt =>
        /\ ValidEdges(citation_edges, corpus)
        /\ Len(citation_edges)
               = SumSeq([i \in 1..Len(corpus) |->
                            Cardinality({k \in 1..Len(corpus[i].referenced_works) :
                                LET t == get(oa_id_to_paper_id,
                                             corpus[i].referenced_works[k], None)
                                IN  t \in Ids(corpus) \ {corpus[i].id}})])
        /\ \A table \in OtherTables : ValidEdges(build_citation_graph(corpus, table), corpus)

\* a corpus with a paper that cites itself, a work outside the corpus and another
\* corpus paper: only the last gives edges
C12_Witness ==
    /\ GraphBuilt
    /\ \E i \in 1..Len(corpus) :
          /\ Occurrences(corpus[i], corpus[i].id, oa_id_to_paper_id) > 0
          /\ \E k \in 1..Len(corpus[i].referenced_works) :
                 corpus[i].referenced_works[k] \notin DOMAIN oa_id_to_paper_id
          /\ \E k \in 1..Len(citation_edges) : citation_edges[k].source = corpus[i].id

\* C13: in-corpus in-degree. For every corpus paper t, the in-corpus citation count
\* of t is the number of reference-list occurrences, over the corpus papers other
\* than t, that resolve to t (a reference listed twice counts twice), and it is the
\* number of edges of build_citation_graph with target t. For A->B, A->C, D->B the
\* counts are 2 for B, 1 for C, 0 for A and D, and there are exactly 3 edges.
C13_InDegree ==
    GraphBuilt =>
        /\ \A t \in Ids(corpus) :
              /\ get(in_corpus_citations, t, 0) = Citing(corpus, t, oa_id_to_paper_id)
              /\ get(in_corpus_citations, t, 0) = EdgesInto(citation_edges, t)
        /\ Range(db) = {PaperA, PaperB, PaperC, PaperD} =>
              /\ get(in_corpus_citations, PaperB.id, 0) = 2
              /\ get(in_corpus_citations, PaperC.id, 0) = 1
              /\ get(in_corpus_citations, PaperA.id, 0) = 0
              /\ get(in_corpus_citations, PaperD.id, 0) = 0
              /\ Len(citation_edges) = 3

\* the corpus of scenario C and its three edges
C13_Witness ==
    /\ GraphBuilt
    /\ Range(db) = {PaperA, PaperB, PaperC, PaperD}
    /\ Len(citation_edges) = 3
    /\ get(in_corpus_citations, PaperB.id, 0) = 2

\* C14: influence bounds. Every paper of a non-empty corpus (counts and scores are
\* non-negative, the maxima are those of the corpus) gets an influence between 0 and
\* 1, whatever its year (missing, before 1995, after 2025) and its in-corpus citation
\* count (also above 50).
C14_InfluenceBounds ==
    Ranked =>
        \A i \in 1..Len(corpus) :
            (corpus[i].cited_by_count >= 0 /\ corpus[i].relevance_score >= 0) =>
                (0 <= corpus[i]["_influence"] /\ corpus[i]["_influence"] <= 10000)

\* a corpus with a paper of after 2025 that is cited more than 50 times in the corpus
\* and has the highest counts, next to a paper without year and one of before 1995
C14_Witness ==
    /\ Ranked
    /\ \E i, j, k \in 1..Len(corpus) :
          /\ corpus[i].year > 2025
          /\ get(in_corpus_citations, corpus[i].id, 0) > 50
          /\ corpus[i]["_influence"] = 10000
          /\ corpus[j].year = 0
          /\ corpus[k].year < 1995 /\ corpus[k].year # 0

\* the files of a given name that a given run has written
Written(r, name) == {i \in 1..Len(views) : views[i].run = r /\ views[i].name = name}

\* the layout of a graph.json: the coordinates of every node id
Layout(view) ==
    {<<view.data.nodes[i].id, view.data.nodes[i].x, view.data.nodes[i].y>> :
        i \in 1..Len(view.data.nodes)}

\* C17: layout reproducibility. Two runs of analyze.py on the same papers, each in a
\* process of its own, give every paper id the same (x, y) in graph.json.
C17_LayoutReproducible ==
    \A i \in Written(1, "graph"), j \in Written(2, "graph") :
        Layout(views[i]) = Layout(views[j])

\* C18: empty corpus. With an empty papers list main ends without raising and has
\* written the four views, each of them empty.
C18_EmptyViews ==
    (apc = "done" /\ Len(db) = 0) =>
        /\ \A name \in {"core", "papers", "graph", "coauthor"} : Written(run, name) # {}
        /\ \A i \in Written(run, "core") :
              views[i].data.papers = <<>> /\ views[i].data.graph.edges = <<>>
        /\ \A i \in Written(run, "papers") : views[i].data.papers = <<>>
        /\ \A i \in Written(run, "graph") :
              views[i].data.nodes = <<>> /\ views[i].data.edges = <<>>
        /\ \A i \in Written(run, "coauthor") :
              views[i].data.nodes = <<>> /\ views[i].data.edges = <<>>

\* the edges of a view without their type label
Plain(edges) ==
    [i \in 1..Len(edges) |-> [source |-> edges[i].source, target |-> edges[i].target]]

Ends(edges) == UNION {{edges[i].source, edges[i].target} : i \in 1..Len(edges)}

\* the citation edges with both ends in a set of ids, in their order
Between(ids) ==
    SelectSeq(citation_edges, LAMBDA e : {e.source, e.target} \subseteq ids)

\* C20: subgraph consistency. In core.json every edge has both ends among the ids of
\* the top-N papers, in graph.json among the nodes of the view, which are the first
\* papers of the ranking, at most as many as the cap; the edge list of each view is
\* exactly the sub-list of the citation edges with both ends in the view's node set.
C20_SubgraphViews ==
    /\ \A i \in Written(run, "core") :
          LET top_ids == Ids(Prefix(corpus, top_papers))
          IN  /\ DOMAIN views[i].data.papers = top_ids
              /\ views[i].data.graph.nodes = top_ids
              /\ Ends(views[i].data.graph.edges) \subseteq top_ids
              /\ views[i].data.graph.edges = Between(top_ids)
    /\ \A i \in Written(run, "graph") :
          LET nodes == views[i].data.nodes
              node_ids == {nodes[k].id : k \in 1..Len(nodes)}
          IN  /\ Len(nodes) <= GraphCap
              /\ [k \in 1..Len(nodes) |-> nodes[k].id]
                     = [k \in 1..Min(GraphCap, Len(corpus)) |-> corpus[k].id]
              /\ Ends(views[i].data.edges) \subseteq node_ids
              /\ Plain(views[i].data.edges) = Between(node_ids)

\* a run whose two views both leave out papers, and with them some but not all of
\* the citation edges
C20_Witness ==
    /\ apc = "done"
    /\ top_papers < Len(corpus)
    /\ GraphCap < Len(corpus)
    /\ \E i \in Written(run, "core") :
          /\ Len(views[i].data.graph.edges) > 0
          /\ Len(views[i].data.graph.edges) < Len(citation_edges)
    /\ \E i \in Written(run, "graph") :
          /\ Len(views[i].data.edges) > 0
          /\ Len(views[i].data.edges) < Len(citation_edges)

\* where the paper of a ranked row stood in papers-db.json
PlaceInDb(row) == CHOOSE k \in 1..Len(db) : db[k].id = row.id

\* main has sorted the papers
Sorted == apc \in {"sorted", "thread_stats", "authors", "graph", "core", "papers", "unified", "done"}

\* C26: global ranking. After the sort the list is in non-increasing order of
\* influence, holds the papers of the list before the sort, each once, and two papers
\* of equal influence stand in the order they had before the sort.
C26_GlobalRanking ==
    (Sorted /\ Len(db) > 0) =>
        /\ \A i, j \in 1..Len(corpus) :
               i < j => corpus[i]["_influence"] >= corpus[j]["_influence"]
        /\ Len(corpus) = Len(db)
        /\ \A k \in 1..Len(db) :
               Cardinality({i \in 1..Len(corpus) : corpus[i].id = db[k].id}) = 1
        /\ \A i \in 1..Len(corpus) :
               corpus[i] = with(with(db[PlaceInDb(corpus[i])], "_thread", corpus[i]["_thread"]),
                                "_influence", corpus[i]["_influence"])
        /\ \A i, j \in 1..Len(corpus) :
               (i < j /\ corpus[i]["_influence"] = corpus[j]["_influence"])
                   => PlaceInDb(corpus[i]) < PlaceInDb(corpus[j])

\* a sort that moved a paper forward and left two papers of equal influence, which are
\* not neighbours in papers-db.json, in their order
C26_Witness ==
    /\ Sorted
    /\ \E i, j \in 1..Len(corpus) :
          /\ i < j
          /\ corpus[i]["_influence"] = corpus[j]["_influence"]
    /\ \E i, j \in 1..Len(corpus) : i < j /\ PlaceInDb(corpus[i]) > PlaceInDb(corpus[j])

---------------------------------------------------------------------------
\* main has built the thread statistics of a non-empty corpus
ThreadsDone ==
    apc \in {"thread_stats", "authors", "graph", "core", "papers", "unified", "done"}
    /\ Len(corpus) > 0

\* main has built the author statistics of a non-empty corpus
AuthorsDone == apc \in {"authors", "graph", "core", "papers", "unified", "done"} /\ Len(corpus) > 0

\* the ids of the first n rows
FirstIds(rows, n) == [i \in 1..Min(n, Len(rows)) |-> rows[i].id]

\* no id stands twice in the list
NoRepeat(ids) == \A i, j \in 1..Len(ids) : ids[i] = ids[j] => i = j

\* no row left out of the list has a strictly higher influence than a row in it
NoneBetterLeftOut(ids, rows) ==
    \A i, j \in 1..Len(rows) :
        (rows[i].id \notin Range(ids) /\ rows[j].id \in Range(ids))
            => rows[i]["_influence"] <= rows[j]["_influence"]

\* a top list of at most cap ids, the prefix of the rows in the order of main's list
TopList(ids, rows, cap) ==
    /\ Len(ids) <= cap
    /\ Range(ids) \subseteq Ids(rows)
    /\ ids = FirstIds(rows, cap)
    /\ NoRepeat(ids)
    /\ NoneBetterLeftOut(ids, rows)

\* the authors of the corpus
AuthorsOf(ps) == UNION {Range(ps[i].authors) : i \in 1..Len(ps)}

ThreadTopLists ==
    ThreadsDone =>
        \A tid \in Range(THREAD_ORDER) :
            TopList(thread_stats[tid].tops,
                    SelectSeq(corpus, LAMBDA p : p["_thread"] = tid), ThreadTops)

AuthorTopLists ==
    AuthorsDone =>
        \A author \in AuthorsOf(corpus) :
            TopList(get(author_top_papers, author, <<>>),
                    SelectSeq(corpus, LAMBDA p : author \in Range(p.authors)), AuthorTops)

\* C27: top-K selection. The "tops" of a thread holds at most 15 ids (ThreadTops in the
\* model), all of papers of that thread, the "tops" of an author at most 10 ids
\* (AuthorTops), all of papers that list the author; each list is the prefix, in the
\* order of the global ranking, of the papers of the thread or author, so no id stands
\* twice in it and no paper left out has a strictly higher influence than one in it.
C27_TopK == ThreadTopLists /\ AuthorTopLists

\* the catalog lists no author twice on one paper
NoNameTwice == \A i \in 1..Len(db) : NoRepeat(db[i].authors)

\* the author lists of a corpus in which no paper lists a name twice
AuthorTopListsOfDistinctNames == NoNameTwice => AuthorTopLists

\* a thread and an author with more papers than the lists hold
TopListsCut ==
    /\ AuthorsDone
    /\ \E tid \in Range(THREAD_ORDER) : thread_stats[tid].tc > ThreadTops
    /\ \E author \in AuthorsOf(corpus) :
           Len(SelectSeq(corpus, LAMBDA p : author \in Range(p.authors))) > AuthorTops

\* the number of papers that list both authors
SharedPapers(a, b) ==
    Cardinality({i \in 1..Len(corpus) : {a, b} \subseteq Range(corpus[i].authors)})

\* the authors with a node: those of strictly positive cumulative influence
NodeAuthors == {a \in AuthorsOf(corpus) : get(author_influence, a, 0) > 0}

\* the network has a node for exactly the authors of positive cumulative influence
NodesOfNetwork(net) ==
    /\ {net.nodes[k].author : k \in 1..Len(net.nodes)} = NodeAuthors
    /\ \A k \in 1..Len(net.nodes) : net.nodes[k].id = author_node_id(net.nodes[k].author)

\* the network has one edge for every pair of distinct node authors with a shared
\* paper, weighted with the number of shared papers, and no other edge
EdgesOfNetwork(net) ==
    /\ \A a, b \in NodeAuthors :
           (a # b /\ SharedPapers(a, b) > 0) =>
               Cardinality({k \in 1..Len(net.edges) :
                               {net.edges[k].source, net.edges[k].target}
                                   = {author_node_id(a), author_node_id(b)}}) = 1
    /\ \A k \in 1..Len(net.edges) :
           \E a, b \in NodeAuthors :
               /\ a # b
               /\ {net.edges[k].source, net.edges[k].target}
                      = {author_node_id(a), author_node_id(b)}
               /\ net.edges[k].weight = SharedPapers(a, b)
               /\ SharedPapers(a, b) > 0

\* every edge joins two different nodes of the network
EdgesJoinNodes(net) ==
    \A k \in 1..Len(net.edges) :
        /\ net.edges[k].source # net.edges[k].target
        /\ {net.edges[k].source, net.edges[k].target}
               \subseteq {net.nodes[n].id : n \in 1..Len(net.nodes)}

\* C28: co-author network. build_coauthor_network emits a node for an author if and
\* only if the author's cumulative influence is strictly positive; its edges are
\* exactly the unordered pairs of two distinct node authors that share a paper, each
\* with the number of shared papers as weight; no edge has an end that is not a node
\* and no edge joins an author to itself, also when an author list repeats a name.
C28_CoauthorNetwork ==
    (apc = "done" /\ Len(db) > 0) =>
        \A i \in Written(run, "coauthor") :
            /\ NodesOfNetwork(views[i].data)
            /\ EdgesOfNetwork(views[i].data)
            /\ EdgesJoinNodes(views[i].data)

\* the network of a corpus in which no paper lists a name twice
CoauthorNetworkOfDistinctNames == NoNameTwice => C28_CoauthorNetwork

\* the nodes alone, whatever the author lists
CoauthorNodes ==
    (apc = "done" /\ Len(db) > 0) =>
        \A i \in Written(run, "coauthor") : NodesOfNetwork(views[i].data)

\* a network with an edge of weight two, of a corpus in which no name stands twice
SharedTwice ==
    /\ apc = "done"
    /\ NoNameTwice
    /\ \E i \in Written(run, "coauthor") :
           \E k \in 1..Len(views[i].data.edges) : views[i].data.edges[k].weight = 2

\* the sum of the "tc" of the first k threads of THREAD_ORDER
RECURSIVE PapersCounted(_)
PapersCounted(k) ==
    IF k = 0 THEN 0 ELSE thread_stats[THREAD_ORDER[k]].tc + PapersCounted(k - 1)

\* the places in main's list of the papers of a thread
PlacesOfThread(tid) == {i \in 1..Len(corpus) : corpus[i]["_thread"] = tid}

\* The statistics of a corpus of pairwise distinct ids: every paper is counted in
\* exactly one of the nine threads, the "tc" add up to the number of papers, and the
\* papers of two different threads, their ids and the "tops" are disjoint.
ThreadStatsPartition ==
    ThreadsDone =>
        /\ Len(THREAD_ORDER) = 9
        /\ DOMAIN thread_stats = Range(THREAD_ORDER)
        /\ PapersCounted(Len(THREAD_ORDER)) = Len(corpus)
        /\ \A i \in 1..Len(corpus) :
               Cardinality({tid \in DOMAIN thread_stats : i \in PlacesOfThread(tid)}) = 1
        /\ \A tid \in DOMAIN thread_stats :
               /\ thread_stats[tid].tc = Cardinality(PlacesOfThread(tid))
               /\ Range(thread_stats[tid].tops)
                      \subseteq {corpus[i].id : i \in PlacesOfThread(tid)}
        /\ \A t1, t2 \in DOMAIN thread_stats :
               t1 # t2 =>
                   /\ {corpus[i].id : i \in PlacesOfThread(t1)}
                          \cap {corpus[i].id : i \in PlacesOfThread(t2)} = {}
                   /\ Range(thread_stats[t1].tops) \cap Range(thread_stats[t2].tops) = {}

\* two threads with papers, one paper with two domain tags and one with no tag
ThreadStatsOfSeveralThreads ==
    /\ ThreadsDone
    /\ Cardinality({tid \in DOMAIN thread_stats : thread_stats[tid].tc > 0}) >= 2
    /\ \E i \in 1..Len(corpus) :
           Cardinality(Range(corpus[i].tags) \cap Range(THREAD_ORDER)) >= 2
    /\ \E i \in 1..Len(corpus) : corpus[i].tags = <<>>

(* Properties of the corpus that build_database hands to analyze.py *)

\* the canonical record of accepted into which a raw record was folded
CanonicalOf(paper) ==
    CHOOSE i \in 1..Len(accepted) : paper_key(accepted[i]) = paper_key(paper)

\* C25: reference resolution across merges. The lookup table analyze.py builds from
\* the deduplicated corpus sends the catalog id, in short and in full form, of every
\* raw record to the id of the canonical paper the record was folded into.
C25_ReferencesResolve ==
    pc = "done" =>
        LET table == build_lookup(<<>>, accepted)
        IN  \A j \in 1..Len(papers) :
                papers[j].openalex_id # None =>
                    LET id == accepted[CanonicalOf(papers[j])].id
                    IN  /\ get(table, short_openalex_id(papers[j].openalex_id), None) = id
                        /\ get(table, papers[j].openalex_id, None) = id

\* the corpus as main has it after thread assignment (lines 250-252)
Assigned(ps) == [i \in 1..Len(ps) |-> with(ps[i], "_thread", assign_thread(ps[i]))]

\* the sum of the "tc" of the first k threads of THREAD_ORDER for a corpus
RECURSIVE CountedIn(_, _)
CountedIn(ps, k) ==
    IF k = 0 THEN 0 ELSE Len(thread_papers(ps, THREAD_ORDER[k])) + CountedIn(ps, k - 1)

\* C30: the thread statistics partition the corpus. After thread assignment every
\* paper of the deduplicated corpus is counted in the statistics of exactly one of
\* the nine threads: the "tc" of the nine threads add up to the number of papers,
\* and the ids of the papers of different threads are pairwise disjoint.
C30_ThreadPartition ==
    pc = "done" =>
        LET ps == Assigned(accepted)
        IN  /\ Len(THREAD_ORDER) = 9
            /\ CountedIn(ps, Len(THREAD_ORDER)) = Len(ps)
            /\ \A t1, t2 \in Range(THREAD_ORDER) :
                   t1 # t2 => Ids(thread_papers(ps, t1)) \cap Ids(thread_papers(ps, t2)) = {}

\* the counts alone
ThreadCountsAddUp ==
    pc = "done" => CountedIn(Assigned(accepted), Len(THREAD_ORDER)) = Len(accepted)

---------------------------------------------------------------------------
(* build_papers_db.py: relevance scoring *)

\* A text is the sequence of its tokens: the maximal runs of letters and digits, and
\* every other character as a token of its own. The characters that occur in the
\* terms and texts of the model and are no letters or digits of [a-z0-9]:
Spaces == {" ", "\t"}

Marks == Spaces \cup {"-", "_", ",", "ö"}

\* what \w matches among the marks
WordMarks == {"_", "ö"}

\* a run of [a-z0-9]
IsWord(token) == token \notin Marks

\* str.lower() on the tokens of the model
LowerCase ==
    ("Optimal" :> "optimal") @@ ("Variational" :> "variational") @@ ("Euler" :> "euler")
    @@ ("Lagrange" :> "lagrange") @@ ("Nash" :> "nash")

lower_tokens(text) ==
    [i \in 1..Len(text) |-> IF text[i] \in DOMAIN LowerCase THEN LowerCase[text[i]] ELSE text[i]]

\* " ".join(parts)
RECURSIVE join(_)
join(parts) ==
    IF Len(parts) = 0 THEN <<>>
    ELSE IF Len(parts) = 1 THEN parts[1]
    ELSE parts[1] \o <<" ">> \o join(Tail(parts))

\* the terms of the model that re.fullmatch(r"[a-z0-9]{1,4}", term) accepts
ShortTerms == {<<"nash">>, <<"sbv">>}

\* the positions behind the matches, from text[j] on, of the pattern made of term[k..]:
\* re.escape keeps every character of the term literal, and each space of the term
\* becomes [\s\-]+ (lines 427-428)
RECURSIVE match_ends(_, _, _, _)
match_ends(term, k, text, j) ==
    IF k > Len(term) THEN {j}
    ELSE IF j > Len(text) THEN {}
    ELSE IF term[k] = " "
         THEN UNION {match_ends(term, k + 1, text, j + n) :
                        n \in {n \in 1..(Len(text) - j + 1) :
                                  \A m \in 0..(n - 1) : text[j + m] \in Spaces \cup {"-"}}}
    ELSE IF text[j] = term[k] THEN match_ends(term, k + 1, text, j + 1)
    ELSE {}

\* \b before text[i] and before text[e], for a term of letters and digits
word_boundaries(text, i, e) ==
    /\ i = 1 \/ (~IsWord(text[i - 1]) /\ text[i - 1] \notin WordMarks)
    /\ e > Len(text) \/ (~IsWord(text[e]) /\ text[e] \notin WordMarks)

\* (?<![a-z0-9]) before text[i] and (?![a-z0-9]) at text[e]
no_alnum_around(text, i, e) ==
    /\ i = 1 \/ ~IsWord(text[i - 1])
    /\ e > Len(text) \/ ~IsWord(text[e])

\* term_in_text with the slip of escaping the spaces of the term as well, so that a
\* space of the term matches one space only
term_in_text_literal(term, text) ==
    \E i \in 1..(Len(text) - Len(term) + 1) :
        /\ \A k \in 1..Len(term) : text[i + k - 1] = term[k]
        /\ IF term \in ShortTerms
           THEN word_boundaries(text, i, i + Len(term))
           ELSE no_alnum_around(text, i, i + Len(term))

\* lines 425-433
term_in_text(term, text) ==
    \E i \in 1..Len(text) :
        \E e \in match_ends(term, 1, text, i) :
            IF term \in ShortTerms
            THEN word_boundaries(text, i, e)
            ELSE no_alnum_around(text, i, e)

\* lines 196-353
DOMAIN_TERMS ==
    [domain \in {"classical_calcvar", "direct_methods", "regularity", "geometric", "optimal_control", "convexity", "gamma_convergence", "optimal_transport", "free_discontinuity"} |->
        CASE domain = "classical_calcvar" ->
               <<
                 <<"euler", "-", "lagrange">>, <<"euler", " ", "lagrange">>,
                 <<"first", " ", "variation">>, <<"second", " ", "variation">>,
                 <<"legendre", " ", "condition">>, <<"weierstrass">>,
                 <<"calculus", " ", "of", " ", "variations">>,
                 <<"variational", " ", "problem">>, <<"variational", " ", "principle">> >>
          [] domain = "direct_methods" ->
               <<
                 <<"lower", " ", "semicontinuity">>, <<"coercivity">>,
                 <<"weak", " ", "convergence">>, <<"sobolev">>, <<"reflexive">>,
                 <<"direct", " ", "method">>, <<"minimizing", " ", "sequence">>,
                 <<"weak", " ", "lower", " ", "semicontinuity">>,
                 <<"existence", " ", "theorem">>, <<"compactness">>,
                 <<"weak", " ", "topology">>, <<"functional", " ", "analysis">>,
                 <<"banach", " ", "space">>, <<"morrey">>,
                 <<"growth", " ", "condition">> >>
          [] domain = "regularity" ->
               <<
                 <<"partial", " ", "regularity">>,
                 <<"h", "ö", "lder", " ", "continuity">>,
                 <<"holder", " ", "continuity">>, <<"de", " ", "giorgi">>, <<"moser">>,
                 <<"nash">>, <<"regularity", " ", "of", " ", "minimizers">>,
                 <<"elliptic", " ", "regularity">>, <<"schauder">>,
                 <<"h", "ö", "lder">>, <<"lipschitz">>, <<"harnack">>,
                 <<"a", " ", "priori", " ", "estimates">>, <<"bootstrap">>,
                 <<"blow", "-", "up">>, <<"singular", " ", "set">>,
                 <<"hausdorff", " ", "dimension">>, <<"almgren">>,
                 <<"regularity", " ", "elliptic">>, <<"mingione">> >>
          [] domain = "geometric" ->
               <<
                 <<"minimal", " ", "surfaces">>, <<"minimal", " ", "surface">>,
                 <<"harmonic", " ", "maps">>, <<"harmonic", " ", "map">>,
                 <<"geodesics">>, <<"geodesic">>, <<"curvature", " ", "flow">>,
                 <<"plateau", " ", "problem">>, <<"area", " ", "functional">>,
                 <<"willmore">>, <<"mean", " ", "curvature">>,
                 <<"ricci", " ", "flow">>, <<"varifold">>, <<"current">>,
                 <<"rectifiable">>, <<"geometric", " ", "measure">>,
                 <<"area", " ", "minimizing">>, <<"stationary", " ", "varifold">>,
                 <<"constant", " ", "mean", " ", "curvature">> >>
          [] domain = "optimal_control" ->
               <<
                 <<"pontryagin">>, <<"bellman">>, <<"hamilton", "-", "jacobi">>,
                 <<"hamilton", " ", "jacobi">>, <<"viscosity", " ", "solutions">>,
                 <<"viscosity", " ", "solution">>, <<"optimal", " ", "control">>,
                 <<"dynamic", " ", "programming">> >>
          [] domain = "convexity" ->
               <<
                 <<"quasiconvexity">>, <<"quasiconvex">>, <<"polyconvexity">>,
                 <<"polyconvex">>, <<"rank", "-", "one", " ", "convexity">>,
                 <<"rank", " ", "one", " ", "convexity">>, <<"relaxation">>,
                 <<"young", " ", "measures">>, <<"young", " ", "measure">>,
                 <<"convex", " ", "integration">>, <<"nonlinear", " ", "elasticity">>,
                 <<"martensitic">>, <<"shape", " ", "memory">>, <<"laminates">>,
                 <<"rank", "-", "one", " ", "connection">>,
                 <<"tartar", " ", "conjecture">>, <<"morrey", " ", "conjecture">>,
                 <<"differential", " ", "inclusion">>, <<"rigidity", " ", "estimate">> >>
          [] domain = "gamma_convergence" ->
               <<
                 <<"gamma", "-", "convergence">>, <<"gamma", " ", "convergence">>,
                 <<"homogenization">>, <<"thin", " ", "structures">>,
                 <<"dimension", " ", "reduction">>, <<"asymptotic", " ", "analysis">>,
                 <<"energy", " ", "scaling">>, <<"scaling", " ", "law">>,
                 <<"microstructure">>, <<"thin", " ", "film">>, <<"epitaxial">>,
                 <<"mosco", " ", "convergence">>, <<"epi", "-", "convergence">>,
                 <<"variational", " ", "limit">>, <<"effective", " ", "energy">>,
                 <<"continuum", " ", "limit">>,
                 <<"discrete", " ", "to", " ", "continuum">>,
                 <<"stochastic", " ", "homogenization">> >>
          [] domain = "optimal_transport" ->
               <<
                 <<"wasserstein">>, <<"monge", "-", "kantorovich">>,
                 <<"monge", " ", "kantorovich">>, <<"brenier">>,
                 <<"displacement", " ", "convexity">>, <<"optimal", " ", "transport">>,
                 <<"mass", " ", "transport">>, <<"kantorovich">>,
                 <<"gradient", " ", "flow">>, <<"jko", " ", "scheme">>,
                 <<"benamou", "-", "brenier">>, <<"entropic", " ", "regularization">>,
                 <<"sinkhorn">>, <<"wasserstein", " ", "gradient">>,
                 <<"otto", " ", "calculus">> >>
          [] domain = "free_discontinuity" ->
               <<
                 <<"mumford", "-", "shah">>, <<"free", " ", "discontinuity">>,
                 <<"sbv">>,
                 <<"special", " ", "functions", " ", "of", " ", "bounded", " ", "variation">>,
                 <<"segmentation">>, <<"crack", " ", "propagation">>,
                 <<"fracture", " ", "mechanics", " ", "variational">>,
                 <<"phase", " ", "field">>, <<"ginzburg", "-", "landau">>,
                 <<"allen", "-", "cahn">>, <<"cahn", "-", "hilliard">>,
                 <<"sharp", " ", "interface", " ", "limit">>,
                 <<"diffuse", " ", "interface">>, <<"modica", "-", "mortola">> >>]

DomainOrder ==
    <<"classical_calcvar", "direct_methods", "regularity", "geometric", "optimal_control", "convexity", "gamma_convergence", "optimal_transport", "free_discontinuity">>

\* the terms of has_calcvar (lines 810-814)
CalcvarTerms ==
    << <<"calculus", " ", "of", " ", "variations">>, <<"variational", " ", "method">>,
       <<"variational", " ", "problem">>, <<"euler", "-", "lagrange">>,
       <<"euler", " ", "lagrange">> >>

\* lines 822-829
core_variational ==
    << <<"variational", " ", "inequality">>, <<"variational", " ", "formulation">>,
       <<"variational", " ", "principle">>, <<"minimization", " ", "problem">>,
       <<"energy", " ", "functional">>, <<"functional", " ", "minimization">> >>

\* --min-year (line 1386)
min_year == 1950

\* the tags of score_paper in the order of sorted()
TagOrder ==
    << "classical_calcvar", "convexity", "direct_methods", "free_discontinuity",
       "gamma_convergence", "geometric", "known-authors", "optimal_control",
       "optimal_transport", "regularity" >>

sorted_tags(tags) == SelectSeq(TagOrder, LAMBDA t : t \in tags)

\* f"{points:.1f}" of a number of tenths
fmt1(points) == ToString(points \div 10) \o "." \o ToString(points % 10)

\* the terms of a list that the text has
matches_of(terms, text) == {k \in 1..Len(terms) : term_in_text(terms[k], text)}

\* lines 796-798: the text that is searched
text_of(paper) ==
    join(<<lower_tokens(paper.title), lower_tokens(paper.abstract_text), join(paper.concept_terms),
           join(paper.keyword_terms)>>)

\* author.lower() for the author names of the model
author_lower(author) == IF author = "Abe" THEN "abe" ELSE "zed"

\* lines 835-846: score, reasons and tags after the domains from the k-th on
RECURSIVE score_domains(_, _, _)
score_domains(k, text, acc) ==
    IF k > Len(DomainOrder) THEN acc
    ELSE LET domain == DomainOrder[k]
             matches == matches_of(DOMAIN_TERMS[domain], text)
             domain_points == Min(30, 8 * Cardinality(matches))
         IN  IF matches = {} THEN score_domains(k + 1, text, acc)
             ELSE score_domains(k + 1, text,
                      [score |-> acc.score + domain_points,
                       reasons |-> Append(acc.reasons,
                                      "domain_" \o domain \o "(+" \o fmt1(domain_points) \o ")"),
                       tags |-> acc.tags \cup {domain},
                       matched_domains |-> acc.matched_domains + 1])

\* score += points, reasons.append(reason), tags.add(...) where the condition holds
add_if(condition, acc, points, reason, tags) ==
    IF condition
    THEN [acc EXCEPT !.score = @ + points, !.reasons = Append(@, reason),
                     !.tags = @ \cup tags]
    ELSE acc

\* lines 871-874: the guardrail
guardrail(acc, has_calcvar, matched_authors) ==
    add_if(~has_calcvar /\ acc.matched_domains < 2 /\ Len(matched_authors) = 0,
           acc, -40, "weak_calcvar_signal(-4)", {})

\* score_paper with the slip of leaving out the guardrail
score_paper_no_guardrail(paper, known_researchers, minimum_year) ==
    LET text == text_of(paper)
        year == paper.year
        has_calcvar == matches_of(CalcvarTerms, text) # {}
        core_matches == Cardinality(matches_of(core_variational, text))
        core_pts == Min(40, 15 * core_matches)
        matched_authors == SelectSeq(paper.authors,
                                     LAMBDA a : author_lower(a) \in known_researchers)
        author_points == Min(60, 20 * Cardinality(Range(matched_authors)))
        cited_by == paper.cited_by_count
        s0 == [score |-> 0, reasons |-> <<>>, tags |-> {}, matched_domains |-> 0]
        s1 == add_if(has_calcvar, s0, 60, "mentions_calcvar(+6)", {"classical_calcvar"})
        s2 == add_if(core_matches > 0, s1, core_pts,
                     "core_variational(+" \o fmt1(core_pts) \o ")", {"classical_calcvar"})
        s3 == score_domains(1, text, s2)
        s4 == add_if(Len(matched_authors) > 0, s3, author_points,
                     "known_researcher(+" \o fmt1(author_points) \o ")", {"known-authors"})
        s5 == add_if(cited_by >= 50, s4, IF cited_by >= 200 THEN 20 ELSE 10,
                     IF cited_by >= 200 THEN "high_citations_200(+2)" ELSE "citations_50(+1)",
                     {})
        s6 == s5
        s7 == add_if(year < 1980 /\ cited_by >= 100, s6, 15, "landmark_classic(+1.5)", {})
    IN  IF year = 0 \/ year < minimum_year
        THEN [score |-> -9990, reasons |-> <<"below_min_year">>, tags |-> <<>>,
              matched_domains |-> 0]
        ELSE [s7 EXCEPT !.tags = sorted_tags(@)]

\* lines 793-881. The score is in tenths, a missing year is 0.
score_paper(paper, known_researchers, minimum_year) ==
    LET text == text_of(paper)
        year == paper.year
        has_calcvar == matches_of(CalcvarTerms, text) # {}
        core_matches == Cardinality(matches_of(core_variational, text))
        core_pts == Min(40, 15 * core_matches)
        matched_authors == SelectSeq(paper.authors,
                                     LAMBDA a : author_lower(a) \in known_researchers)
        author_points == Min(60, 20 * Cardinality(Range(matched_authors)))
        cited_by == paper.cited_by_count
        s0 == [score |-> 0, reasons |-> <<>>, tags |-> {}, matched_domains |-> 0]
        s1 == add_if(has_calcvar, s0, 60, "mentions_calcvar(+6)", {"classical_calcvar"})
        s2 == add_if(core_matches > 0, s1, core_pts,
                     "core_variational(+" \o fmt1(core_pts) \o ")", {"classical_calcvar"})
        s3 == score_domains(1, text, s2)
        s4 == add_if(Len(matched_authors) > 0, s3, author_points,
                     "known_researcher(+" \o fmt1(author_points) \o ")", {"known-authors"})
        s5 == add_if(cited_by >= 50, s4, IF cited_by >= 200 THEN 20 ELSE 10,
                     IF cited_by >= 200 THEN "high_citations_200(+2)" ELSE "citations_50(+1)",
                     {})
        s6 == guardrail(s5, has_calcvar, matched_authors)
        s7 == add_if(year < 1980 /\ cited_by >= 100, s6, 15, "landmark_classic(+1.5)", {})
    IN  IF year = 0 \/ year < minimum_year
        THEN [score |-> -9990, reasons |-> <<"below_min_year">>, tags |-> <<>>,
              matched_domains |-> 0]
        ELSE [s7 EXCEPT !.tags = sorted_tags(@)]

\* lines 1176-1204: what the scoring loop of build_database does with one candidate
score_candidate(paper, known_researchers, minimum_year, minimum_score) ==
    LET result == score_paper(paper, known_researchers, minimum_year)
        is_known_author == "known-authors" \in Range(result.tags)
        effective_min == IF is_known_author THEN minimum_score * 5 ELSE minimum_score * 10
        rejected ==
            \/ result.score < effective_min
            \/ /\ "mentions_calcvar(+6)" \notin Range(result.reasons)
               /\ result.matched_domains < 2
               /\ ~(is_known_author /\ result.matched_domains >= 0)
    IN  [score |-> result.score, reasons |-> result.reasons, tags |-> result.tags,
         matched_domains |-> result.matched_domains, accepted |-> ~rejected]

\* lines 1297-1303: the relevance gate of the citation expansion for one candidate
expansion_gate(paper, known_researchers, minimum_year) ==
    LET result == score_paper(paper, known_researchers, minimum_year)
        has_calcvar == \E k \in 1..Len(result.reasons) : result.reasons[k] = "mentions_calcvar(+6)"
    IN  [score |-> result.score, reasons |-> result.reasons, tags |-> result.tags,
         matched_domains |-> result.matched_domains,
         accepted |-> ~(~has_calcvar /\ result.matched_domains < 2)]

\* lines 1007-1015: the lower-cased names of the seed authors
known_researchers == {"abe"}

ScoreTitles ==
    { <<"Optimal", " ", "design">>,
      <<"Variational", " ", "methods">>,
      <<"variational", "-", "method">>,
      <<"Euler", "\t", "-", "Lagrange">>,
      <<"energy", " ", "functional", " ", "minimization", " ", "problem">>,
      <<"sobolev", "_", "nash">>,
      <<"Nash", ",", " ", "sobolev">> }

ScoreAbstracts ==
    { <<>>,
      <<"variational", " ", "inequality", " ", "and", " ", "variational", "-", "formulation">>,
      <<"h", "ö", "lder", " ", "sbv">> }

ScoreConcepts == { <<>>, << <<"variational", " ", "principle">>, <<"euler", "-", "lagrange">> >> }

ScoreYears == {0, 1940, 1975, 2000}

ScoreCitations == {0, 60, 250}

ScoreAuthors == { <<>>, <<"Zed">>, <<"Zed", "Abe">> }

\* the candidates handed to score_paper: the fields of paper_from_openalex that it reads
ScorePapers ==
    [title : ScoreTitles, abstract_text : ScoreAbstracts, concept_terms : ScoreConcepts,
     keyword_terms : {<<>>}, year : ScoreYears, cited_by_count : ScoreCitations,
     authors : ScoreAuthors]

ScoreInit ==
    /\ arg \in {<<paper>> : paper \in ScorePapers}
    /\ ret = <<>>
    /\ BuildIdle
    /\ AnalysisIdle

\* the candidate came by a query or an author search: the scoring loop
ScoreCandidate ==
    /\ Len(ret) = 0
    /\ ret' = <<score_candidate(arg[1], known_researchers, min_year, min_score)>>
    /\ UNCHANGED <<arg, buildVars, analysisVars>>

\* the candidate came by the citation expansion
ScoreExpansion ==
    /\ Len(ret) = 0
    /\ ret' = <<expansion_gate(arg[1], known_researchers, min_year)>>
    /\ UNCHANGED <<arg, buildVars, analysisVars>>

ScoreNext == ScoreCandidate \/ ScoreExpansion

ScoreSpec == ScoreInit /\ [][ScoreNext]_vars

\* the text of the candidate has none of the core-topic phrases
NoCorePhrase(paper) == matches_of(CalcvarTerms, text_of(paper)) = {}

\* the text of the candidate has no term of any domain
NoDomain(paper) ==
    \A k \in 1..Len(DomainOrder) : matches_of(DOMAIN_TERMS[DomainOrder[k]], text_of(paper)) = {}

NoKnownAuthor(paper) ==
    \A k \in 1..Len(paper.authors) : author_lower(paper.authors[k]) \notin known_researchers

\* what C19 supposes of a candidate
Unrelated(paper) ==
    /\ paper.year # 0
    /\ paper.year >= min_year
    /\ NoCorePhrase(paper)
    /\ NoDomain(paper)
    /\ NoKnownAuthor(paper)

\* C19: guardrail rejection. A candidate of year >= min_year without core-topic
\* phrase, without domain and without known author gets the penalty of 4 and a score
\* below min_score, whatever its citations, its year and its secondary phrases, and
\* is not accepted, neither by the scoring loop nor by the citation expansion.
C19_GuardrailRejects ==
    (Len(ret) = 1 /\ Len(arg) = 1 /\ "title" \in DOMAIN arg[1] /\ Unrelated(arg[1])) =>
        /\ \E k \in 1..Len(ret[1].reasons) : ret[1].reasons[k] = "weak_calcvar_signal(-4)"
        /\ ret[1].score < min_score * 10
        /\ ~ret[1].accepted

\* a scored candidate of 1975 with 250 citations and three secondary phrases: the
\* highest score the supposition leaves, 4 + 2 - 4 + 1.5
C19_Witness ==
    /\ Len(ret) = 1
    /\ Len(arg) = 1
    /\ "title" \in DOMAIN arg[1]
    /\ Unrelated(arg[1])
    /\ arg[1].year = 1975
    /\ arg[1].cited_by_count = 250
    /\ ret[1].score = 35
    /\ ~ret[1].accepted

---------------------------------------------------------------------------
(* term_in_text called on its own *)

\* the terms of the configuration: DOMAIN_TERMS, and the phrases score_paper names
\* itself (lines 810-814, 822-829)
ConfiguredTerms ==
    UNION {Range(DOMAIN_TERMS[domain]) : domain \in DOMAIN DOMAIN_TERMS}
        \cup Range(CalcvarTerms) \cup Range(core_variational)

\* the separators a phrase is written with
Separators == {" ", "-"}

\* the configured phrases of several words
Phrases == {term \in ConfiguredTerms : \E k \in 1..Len(term) : term[k] \in Separators}

\* the phrase written with one separator throughout
Respelled(phrase, sep) ==
    [k \in 1..Len(phrase) |-> IF phrase[k] \in Separators THEN sep ELSE phrase[k]]

\* the phrase as words of a sentence
InSentence(phrase) == <<"on", " ", "the", " ">> \o phrase \o <<",", " ", "revisited">>

\* the phrase with letters in front of its first word, or behind its last word
Lengthened(phrase) ==
    {[phrase EXCEPT ![1] = "x" \o @], [phrase EXCEPT ![Len(phrase)] = @ \o "s"]}

\* the texts a phrase is looked for in: the phrase in either spelling, alone and in a
\* sentence, and both spellings as part of a longer word
TextsOf(phrase) ==
    UNION {{Respelled(phrase, sep), InSentence(Respelled(phrase, sep))}
               \cup Lengthened(Respelled(phrase, sep))
               \cup {InSentence(longer) : longer \in Lengthened(Respelled(phrase, sep))} :
           sep \in Separators}

TermInit ==
    /\ arg \in {<<[term |-> phrase, text |-> text]>> :
                    phrase \in Phrases, text \in UNION {TextsOf(p) : p \in Phrases}}
    /\ ret = <<>>
    /\ BuildIdle
    /\ AnalysisIdle

TermCall ==
    /\ Len(ret) = 0
    /\ ret' = <<term_in_text(arg[1].term, arg[1].text)>>
    /\ UNCHANGED <<arg, buildVars, analysisVars>>

TermNext == TermCall

TermSpec == TermInit /\ [][TermNext]_vars

\* term_in_text has been called with a phrase
Looked == Len(ret) = 1 /\ Len(arg) = 1 /\ "term" \in DOMAIN arg[1]

\* the text holds the phrase, in some spelling, as words of its own
Spelled(phrase, text) ==
    \E sep \in Separators :
        text \in {Respelled(phrase, sep), InSentence(Respelled(phrase, sep))}

\* the text holds the phrase only as part of a longer word
OnlyInLongerWord(phrase, text) ==
    \E sep \in Separators :
        \E longer \in Lengthened(Respelled(phrase, sep)) : text \in {longer, InSentence(longer)}

\* C29: phrase matching takes hyphens and spaces inside a phrase as interchangeable, in
\* both directions. For every configured phrase of several words term_in_text matches
\* when the term has a hyphen and the text a space and when the term has a space and
\* the text a hyphen, and never when the phrase is only part of a longer word.
C29_SeparatorsInterchangeable ==
    Looked =>
        /\ Spelled(arg[1].term, arg[1].text) => ret[1]
        /\ OnlyInLongerWord(arg[1].term, arg[1].text) => ~ret[1]

\* one direction: a phrase configured with spaces only is found in either spelling
SpacedTermMatches ==
    (Looked /\ "-" \notin Range(arg[1].term) /\ Spelled(arg[1].term, arg[1].text)) => ret[1]

\* no phrase is found inside a longer word of letters and digits
NoMatchInLongerWord ==
    (Looked /\ OnlyInLongerWord(arg[1].term, arg[1].text)) => ~ret[1]

\* a phrase is found only in a text that holds one of its spellings as words
MatchesOnlySpellings ==
    (Looked /\ ret[1]) =>
        \E sep \in Separators :
            \E i \in 0..(Len(arg[1].text) - Len(arg[1].term)) :
                /\ \A k \in 1..Len(arg[1].term) :
                       arg[1].text[i + k] = Respelled(arg[1].term, sep)[k]
                          \/ (arg[1].term[k] = " " /\ arg[1].text[i + k] \in Separators)
                /\ i = 0 \/ ~IsWord(arg[1].text[i])
                /\ i + Len(arg[1].term) = Len(arg[1].text)
                       \/ ~IsWord(arg[1].text[i + Len(arg[1].term) + 1])

\* a phrase configured with spaces was found in a text that writes it with hyphens
SpacedTermFoundHyphenated ==
    /\ Looked
    /\ arg[1].term = <<"euler", " ", "lagrange">>
    /\ arg[1].text = InSentence(<<"euler", "-", "lagrange">>)
    /\ ret[1]

=============================================================================
